---- MODULE Spec2Model ----
(***************************************************************************)
(* Live caption reconciliation core of the viewer (ViewerInterface in      *)
(* src/components/viewer-interface.tsx): the caption list fed by the       *)
(* history load and the realtime INSERT feed, the partial transcript, the  *)
(* idle detector and the two translation pipelines (Chrome on-device and   *)
(* server API).  React state, refs, timers and promises in flight are the  *)
(* variables; every handler is one action that also runs the effects its   *)
(* state changes trigger.                                                  *)
(***************************************************************************)
EXTENDS Integers, Sequences, FiniteSets, TLC

\* ------------------------------------------------------------------------
\* Bounds of the model
\* ------------------------------------------------------------------------
MaxCaptions == 2        \* rows the producer inserts for the event
MaxCalls == 1           \* translate calls in flight that nothing cancels
MaxStale == 1           \* aborted createTranslator runs still awaiting
StepsPerTick == 2       \* clock steps per tick of the idle interval
MaxBurst == 2           \* partial updates counted in one burst
MaxHandles == 2         \* translators created and not yet destroyed
MaxRows == 3            \* rows the broadcaster writes for the event
MaxSeq == 4             \* values the sequence cursor takes
MaxText == 2            \* tokens of a text or URL handed to the server or the app
MaxOverlays == 2        \* overlay windows open at a time

\* ------------------------------------------------------------------------
\* Program constants
\* ------------------------------------------------------------------------
IDLE_THRESHOLD_MS == 15000
IDLE_MESSAGE_DURATION_MS == 5000
IDLE_TICK_MS == 1000
DEBOUNCE_MS == 500

\* Durations in clock steps (one step is IDLE_TICK_MS / StepsPerTick ms).
ThresholdSteps == (IDLE_THRESHOLD_MS * StepsPerTick) \div IDLE_TICK_MS
MessageSteps == (IDLE_MESSAGE_DURATION_MS * StepsPerTick) \div IDLE_TICK_MS
MaxElapsed == ThresholdSteps + MessageSteps + 2 * StepsPerTick

\* ------------------------------------------------------------------------
\* Values
\* ------------------------------------------------------------------------
CaptionTexts == <<"Hi", "How are you", "Bye">>
CaptionLangs == <<"", "de", "en">>
RowText(i) == CaptionTexts[((i - 1) % Len(CaptionTexts)) + 1]
RowLang(i) == CaptionLangs[((i - 1) % Len(CaptionLangs)) + 1]

\* The row the producer inserted as the i-th caption of the event.
Row(i) == [id |-> i, seq |-> i - 1, text |-> RowText(i), lang |-> RowLang(i)]

\* A redelivery of row i that carries another text (a buggy redelivery).
Garbled(i) == [Row(i) EXCEPT !.text = "garbled"]

PartialTexts == {"", "a", "ab"}
PartialLangs == {"", "de"}
Targets == {"none", "es", "fr"}
Providers == {"chrome", "api"}

\* A translated text: what a provider answers for (text, source, target).
\* NoText is the empty string of the translated-text slots.
NoText == [text |-> "", src |-> "", tgt |-> ""]
Translated(text, src, tgt) == [text |-> text, src |-> src, tgt |-> tgt]

EmptyMap == [i \in {} |-> NoText]
MapSet(m, k, v) == [j \in (DOMAIN m) \cup {k} |-> IF j = k THEN v ELSE m[j]]

NoRun == [stage |-> "none", src |-> "", tgt |-> "", caps |-> <<>>, idx |-> 0, acc |-> EmptyMap]
NoBulk == [active |-> FALSE, src |-> "", tgt |-> "", caps |-> <<>>, idx |-> 0, acc |-> EmptyMap]
NoNewCap == [active |-> FALSE, id |-> 0, text |-> "", src |-> "", tgt |-> ""]
NoHandle == [live |-> FALSE, src |-> "", tgt |-> ""]

VARIABLES
  captions, partialText, isLoading, sourceLanguage,
  targetLanguage, translationProvider, translatedCaptions,
  translatedPartialText, isTranslatorSupported, isTranslationApiAvailable,
  isTranslating, translationError, downloadProgress,
  translatorRef, translatorAbortRef, undestroyed,
  chromeRun, staleRuns, apiBulk, apiNewCap, timers, calls,
  lastActivityAge, showIdleMessage, idleMessageVisible, idleMessageTimeout,
  idleOrphanTimers,
  tickLeft, db, loadPc, loadData, apiProbe, storedProvider, burst, lastOp,
  sequenceNumberRef, eventRows, broadcasterLoad, broadcasterData,
  previewCaptions, insertResponses, insertNotifications,
  serverEnv, getResponse, postRequest, postResponse,
  appState, launcherWindow, overlayWindow, launcherOpen, overlaysOpen, overlayUrl

vars == <<captions, partialText, isLoading, sourceLanguage,
  targetLanguage, translationProvider, translatedCaptions,
  translatedPartialText, isTranslatorSupported, isTranslationApiAvailable,
  isTranslating, translationError, downloadProgress,
  translatorRef, translatorAbortRef, undestroyed,
  chromeRun, staleRuns, apiBulk, apiNewCap, timers, calls,
  lastActivityAge, showIdleMessage, idleMessageVisible, idleMessageTimeout,
  idleOrphanTimers,
  tickLeft, db, loadPc, loadData, apiProbe, storedProvider, burst, lastOp,
  sequenceNumberRef, eventRows, broadcasterLoad, broadcasterData,
  previewCaptions, insertResponses, insertNotifications,
  serverEnv, getResponse, postRequest, postResponse,
  appState, launcherWindow, overlayWindow, launcherOpen, overlaysOpen, overlayUrl>>

\* ------------------------------------------------------------------------
\* The component's state and refs as one record, so that a handler and the
\* effects it triggers compose as functions.  objDirty names the object-valued
\* states (compared by identity in dependency arrays) that received a new
\* object since the last render.
\* ------------------------------------------------------------------------
NoError == [msg |-> "", src |-> "", tgt |-> ""]
UnsupportedError(src, tgt) == [msg |-> "unsupported", src |-> src, tgt |-> tgt]
InitFailedError(src, tgt) == [msg |-> "failed", src |-> src, tgt |-> tgt]

Cur ==
  [captions |-> captions, partialText |-> partialText, isLoading |-> isLoading,
   sourceLanguage |-> sourceLanguage, targetLanguage |-> targetLanguage,
   translationProvider |-> translationProvider,
   translatedCaptions |-> translatedCaptions,
   translatedPartialText |-> translatedPartialText,
   isTranslatorSupported |-> isTranslatorSupported,
   isTranslationApiAvailable |-> isTranslationApiAvailable,
   isTranslating |-> isTranslating, translationError |-> translationError,
   downloadProgress |-> downloadProgress,
   translatorRef |-> translatorRef, translatorAbortRef |-> translatorAbortRef,
   undestroyed |-> undestroyed,
   chromeRun |-> chromeRun, staleRuns |-> staleRuns, apiBulk |-> apiBulk,
   apiNewCap |-> apiNewCap, timers |-> timers, calls |-> calls,
   lastActivityAge |-> lastActivityAge, showIdleMessage |-> showIdleMessage,
   idleMessageVisible |-> idleMessageVisible,
   idleMessageTimeout |-> idleMessageTimeout,
   idleOrphanTimers |-> idleOrphanTimers,
   objDirty |-> {}]

\* The pools of promises in flight stay within the bounds of the model.
Bounded(s) ==
  /\ Cardinality(s.calls) <= MaxCalls
  /\ Cardinality(s.staleRuns) <= MaxStale
  /\ s.undestroyed <= MaxHandles
  /\ s.idleOrphanTimers <= MaxStale

Commit(n) ==
  \E s \in {n} :
  /\ Bounded(s)
  /\ captions' = s.captions
  /\ partialText' = s.partialText
  /\ isLoading' = s.isLoading
  /\ sourceLanguage' = s.sourceLanguage
  /\ targetLanguage' = s.targetLanguage
  /\ translationProvider' = s.translationProvider
  /\ translatedCaptions' = s.translatedCaptions
  /\ translatedPartialText' = s.translatedPartialText
  /\ isTranslatorSupported' = s.isTranslatorSupported
  /\ isTranslationApiAvailable' = s.isTranslationApiAvailable
  /\ isTranslating' = s.isTranslating
  /\ translationError' = s.translationError
  /\ downloadProgress' = s.downloadProgress
  /\ translatorRef' = s.translatorRef
  /\ translatorAbortRef' = s.translatorAbortRef
  /\ undestroyed' = s.undestroyed
  /\ chromeRun' = s.chromeRun
  /\ staleRuns' = s.staleRuns
  /\ apiBulk' = s.apiBulk
  /\ apiNewCap' = s.apiNewCap
  /\ timers' = s.timers
  /\ calls' = s.calls
  /\ lastActivityAge' = s.lastActivityAge
  /\ showIdleMessage' = s.showIdleMessage
  /\ idleMessageVisible' = s.idleMessageVisible
  /\ idleMessageTimeout' = s.idleMessageTimeout
  /\ idleOrphanTimers' = s.idleOrphanTimers

\* States compared by value in the dependency arrays.
ValueFields ==
  {"partialText", "isLoading", "sourceLanguage", "targetLanguage",
   "translationProvider", "translatedPartialText", "isTranslatorSupported",
   "isTranslationApiAvailable", "isTranslating", "translationError",
   "downloadProgress", "showIdleMessage", "idleMessageVisible"}

Dirty(prev, cur) == {f \in ValueFields : prev[f] # cur[f]} \cup cur.objDirty

\* setCaptions / setTranslatedCaptions with a new array or Map object.
SetCaptionsObj(s, v) == [s EXCEPT !.captions = v, !.objDirty = @ \cup {"captions"}]
SetTranslatedCaptionsObj(s, v) ==
  [s EXCEPT !.translatedCaptions = v, !.objDirty = @ \cup {"translatedCaptions"}]

\* ------------------------------------------------------------------------
\* Effects.  A body reads the states of the render r it belongs to and the
\* refs and pools of the accumulated state s.
\* ------------------------------------------------------------------------
IdleDeps == {"showIdleMessage"}
ChromeCreateDeps ==
  {"translationProvider", "targetLanguage", "sourceLanguage",
   "isTranslatorSupported", "captions"}
ApiBulkDeps ==
  {"translationProvider", "targetLanguage", "isTranslationApiAvailable",
   "captions", "sourceLanguage"}
ApiNewCapDeps == ApiBulkDeps \cup {"translatedCaptions"}
ApiPartialDeps ==
  {"translationProvider", "targetLanguage", "isTranslationApiAvailable",
   "partialText", "sourceLanguage"}
ChromeNewCapDeps ==
  {"translationProvider", "captions", "targetLanguage", "translatedCaptions"}
ChromePartialDeps == {"translationProvider", "partialText", "targetLanguage"}

\* Idle message effect: show the notice for IDLE_MESSAGE_DURATION_MS.
\* idleMessageTimeout is the time left on the timer idleMessageTimeoutRef
\* holds (-1: none pending); idleOrphanTimers counts the pending hide timers
\* the ref no longer holds.
\* clearTimeout(idleMessageTimeoutRef.current)
ClearIdleTimeout(s) == [s EXCEPT !.idleMessageTimeout = -1]
\* idleMessageTimeoutRef.current = setTimeout(..., IDLE_MESSAGE_DURATION_MS)
SetIdleTimeout(s) ==
  [s EXCEPT !.idleOrphanTimers = IF s.idleMessageTimeout >= 0 THEN @ + 1 ELSE @,
            !.idleMessageTimeout = MessageSteps]

IdleCleanup(s) == ClearIdleTimeout(s)
\* A plausible slip: the notice is left up when the idle flag falls.
IdleEffectKeepNotice(s, r) ==
  IF r.showIdleMessage
    THEN SetIdleTimeout(ClearIdleTimeout([s EXCEPT !.idleMessageVisible = TRUE]))
    ELSE ClearIdleTimeout(s)

IdleEffect(s, r) ==
  IF r.showIdleMessage
    THEN SetIdleTimeout(ClearIdleTimeout([s EXCEPT !.idleMessageVisible = TRUE]))
    ELSE ClearIdleTimeout([s EXCEPT !.idleMessageVisible = FALSE])

\* translator.destroy(): the handle is released and the translate calls still
\* pending on it reject with AbortError, on which translateNewCaption and the
\* partial callback return: these calls leave the pool without effect.
DestroyTranslator(s) ==
  [s EXCEPT !.translatorRef = NoHandle,
            !.undestroyed = IF s.translatorRef.live THEN @ - 1 ELSE @,
            !.calls = {c \in @ : c.kind = "apiPartial"}]

\* controller.abort(): the createTranslator run of the effect is aborted.  A
\* run awaiting availability() or create() still resumes later; a run in the
\* bulk pass only breaks out of its loop.
AbortRun(s) ==
  [s EXCEPT !.chromeRun = NoRun,
            !.staleRuns =
               IF s.chromeRun.stage \in {"avail", "create"}
                 THEN @ \cup {[stage |-> s.chromeRun.stage,
                               src |-> s.chromeRun.src, tgt |-> s.chromeRun.tgt]}
                 ELSE @]

ChromeCreateCleanup(s) ==
  [DestroyTranslator(AbortRun(s)) EXCEPT !.translatorAbortRef = "null"]

ChromeCreateEffect(s, r) ==
  IF r.translationProvider # "chrome" THEN s
  ELSE
    LET a == [DestroyTranslator(AbortRun(s)) EXCEPT !.translatorAbortRef = "live"]
        reset == SetTranslatedCaptionsObj(
                   [a EXCEPT !.translationError = NoError,
                             !.downloadProgress = -1,
                             !.translatedPartialText = NoText], EmptyMap)
    IN IF r.targetLanguage = "none" \/ ~r.isTranslatorSupported
         THEN reset
         ELSE [reset EXCEPT !.isTranslating = TRUE,
                            !.chromeRun = [stage |-> "avail",
                                           src |-> r.sourceLanguage,
                                           tgt |-> r.targetLanguage,
                                           caps |-> r.captions,
                                           idx |-> 0, acc |-> EmptyMap]]

\* API bulk translation effect.
\* A plausible slip: the cleanup leaves the cancelled flag alone.
ApiBulkCleanupNoCancel(s) == s

ApiBulkCleanup(s) == [s EXCEPT !.apiBulk = NoBulk]
ApiBulkEffect(s, r) ==
  IF r.translationProvider # "api" \/ r.targetLanguage = "none"
       \/ ~r.isTranslationApiAvailable
    THEN IF r.translationProvider = "api"
           THEN SetTranslatedCaptionsObj(
                  [s EXCEPT !.translatedPartialText = NoText,
                            !.translationError = NoError], EmptyMap)
           ELSE s
    ELSE
      LET started == [s EXCEPT !.translationError = NoError,
                               !.translatedPartialText = NoText]
      IN IF r.captions = <<>>
           THEN [SetTranslatedCaptionsObj(started, EmptyMap)
                   EXCEPT !.isTranslating = FALSE]
           ELSE [started EXCEPT !.isTranslating = TRUE,
                                !.apiBulk = [active |-> TRUE,
                                             src |-> r.sourceLanguage,
                                             tgt |-> r.targetLanguage,
                                             caps |-> r.captions,
                                             idx |-> 1, acc |-> EmptyMap]]

\* Translate new captions as they arrive (API path).
ApiNewCapCleanup(s) == [s EXCEPT !.apiNewCap = NoNewCap]
ApiNewCapEffect(s, r) ==
  IF r.translationProvider # "api" \/ r.targetLanguage = "none"
       \/ ~r.isTranslationApiAvailable \/ r.captions = <<>>
    THEN s
    ELSE LET lastCaption == r.captions[Len(r.captions)]
         IN IF lastCaption.id \in DOMAIN r.translatedCaptions
              THEN s
              ELSE [s EXCEPT !.apiNewCap = [active |-> TRUE,
                                            id |-> lastCaption.id,
                                            text |-> lastCaption.text,
                                            src |-> r.sourceLanguage,
                                            tgt |-> r.targetLanguage]]

\* Translate partial text with debouncing (API path).
ClearTimers(s, kind) == [s EXCEPT !.timers = {t \in @ : t.kind # kind}]
\* A plausible slip: the cleanup forgets clearTimeout.
ApiPartialCleanupNoClear(s) == s

ApiPartialCleanup(s) == ClearTimers(s, "api")
\* A plausible slip: the guard forgets the pass-through target.
ApiPartialEffectNoTargetCheck(s, r) ==
  IF r.translationProvider # "api" \/ ~r.isTranslationApiAvailable
       \/ r.partialText = ""
    THEN [s EXCEPT !.translatedPartialText = NoText]
    ELSE [s EXCEPT !.timers = @ \cup {[kind |-> "api", text |-> r.partialText,
                                       src |-> r.sourceLanguage,
                                       tgt |-> r.targetLanguage,
                                       delay |-> DEBOUNCE_MS]}]

ApiPartialEffect(s, r) ==
  IF r.translationProvider # "api" \/ r.targetLanguage = "none"
       \/ ~r.isTranslationApiAvailable \/ r.partialText = ""
    THEN [s EXCEPT !.translatedPartialText = NoText]
    ELSE [s EXCEPT !.timers = @ \cup {[kind |-> "api", text |-> r.partialText,
                                       src |-> r.sourceLanguage,
                                       tgt |-> r.targetLanguage,
                                       delay |-> DEBOUNCE_MS]}]

\* Translate new captions as they arrive (Chrome only); no cleanup.
ChromeNewCapEffect(s, r) ==
  IF r.translationProvider # "chrome" \/ ~s.translatorRef.live
       \/ r.targetLanguage = "none" \/ r.captions = <<>>
    THEN s
    ELSE LET lastCaption == r.captions[Len(r.captions)]
         IN IF lastCaption.id \in DOMAIN r.translatedCaptions
              THEN s
              ELSE [s EXCEPT !.calls = @ \cup
                      {[kind |-> "chromeNewCap", id |-> lastCaption.id,
                        text |-> lastCaption.text, src |-> s.translatorRef.src,
                        tgt |-> s.translatorRef.tgt]}]

\* Translate partial text with debouncing (Chrome only).
ChromePartialCleanup(s) == ClearTimers(s, "chrome")
\* A plausible slip: the guard forgets the empty partial.
ChromePartialEffectNoEmptyCheck(s, r) ==
  IF r.translationProvider # "chrome" \/ ~s.translatorRef.live
       \/ r.targetLanguage = "none"
    THEN [s EXCEPT !.translatedPartialText = NoText]
    ELSE [s EXCEPT !.timers = @ \cup {[kind |-> "chrome", text |-> r.partialText,
                                       src |-> "", tgt |-> "",
                                       delay |-> DEBOUNCE_MS]}]

ChromePartialEffect(s, r) ==
  IF r.translationProvider # "chrome" \/ ~s.translatorRef.live
       \/ r.targetLanguage = "none" \/ r.partialText = ""
    THEN [s EXCEPT !.translatedPartialText = NoText]
    ELSE [s EXCEPT !.timers = @ \cup {[kind |-> "chrome", text |-> r.partialText,
                                       src |-> "", tgt |-> "",
                                       delay |-> DEBOUNCE_MS]}]

\* One commit: the cleanups of the effects whose dependencies changed, in
\* definition order, then their bodies, in definition order.
On(deps, d, t, e) == IF deps \cap d # {} THEN t ELSE e

\* The value of an expression, computed once.
The(S) == CHOOSE x \in S : TRUE

\* Step i of a commit on the accumulated state s, for the render r whose
\* changed dependencies are d.
EffectStep(i, s, r, d) ==
  CASE i = 1 -> On(IdleDeps, d, IdleCleanup(s), s)
    [] i = 2 -> On(ChromeCreateDeps, d, ChromeCreateCleanup(s), s)
    [] i = 3 -> On(ApiBulkDeps, d, ApiBulkCleanup(s), s)
    [] i = 4 -> On(ApiNewCapDeps, d, ApiNewCapCleanup(s), s)
    [] i = 5 -> On(ApiPartialDeps, d, ApiPartialCleanup(s), s)
    [] i = 6 -> On(ChromePartialDeps, d, ChromePartialCleanup(s), s)
    [] i = 7 -> On(IdleDeps, d, IdleEffect(s, r), s)
    [] i = 8 -> On(ChromeCreateDeps, d, ChromeCreateEffect(s, r), s)
    [] i = 9 -> On(ApiBulkDeps, d, ApiBulkEffect(s, r), s)
    [] i = 10 -> On(ApiNewCapDeps, d, ApiNewCapEffect(s, r), s)
    [] i = 11 -> On(ApiPartialDeps, d, ApiPartialEffect(s, r), s)
    [] i = 12 -> On(ChromeNewCapDeps, d, ChromeNewCapEffect(s, r), s)
    [] OTHER -> On(ChromePartialDeps, d, ChromePartialEffect(s, r), s)

EffectSteps == 13

RECURSIVE EffectsFrom(_, _, _, _)
EffectsFrom(i, s, r, d) ==
  IF i > EffectSteps THEN s
  ELSE The({EffectsFrom(i + 1, n, r, d) : n \in {EffectStep(i, s, r, d)}})

RunEffects(r, d) == EffectsFrom(1, r, r, d)

\* Re-render until no dependency changes any more.  The bodies set only
\* states that the new-caption effects depend on, and those set none, so two
\* commits reach the fixpoint.
RECURSIVE Cascade(_, _, _)
Cascade(prev, cur, fuel) ==
  The({IF d = {} \/ fuel = 0 THEN r
       ELSE The({Cascade(r, n, fuel - 1) : n \in {RunEffects(r, d)}}) :
         d \in {Dirty(prev, cur)}, r \in {[cur EXCEPT !.objDirty = {}]}})

Render(prev, cur) == The({Cascade(p, c, 3) : p \in {prev}, c \in {cur}})

\* ------------------------------------------------------------------------
\* Environment: the captions table, the history query, the clock.
\* ------------------------------------------------------------------------
\* The broadcaster page of the event: its sequence cursor, the rows it has
\* written to the captions table (their sequence numbers, in the order of
\* the inserts; the position of a row stands for its id), its own history
\* load (the ids of the loaded rows), its caption preview list (ids), and
\* the insert responses and realtime INSERT notifications under way to it.
broadcasterVars ==
  <<sequenceNumberRef, eventRows, broadcasterLoad, broadcasterData,
    previewCaptions, insertResponses, insertNotifications>>

\* The translate route of the server: its environment, the last answer of
\* GET, the last POST request and its answer.
serverVars == <<serverEnv, getResponse, postRequest, postResponse>>

\* The Electron overlay app: the app, its two module variables, the launcher
\* window, the overlay windows open and the URL the latest one loaded.
electronVars ==
  <<appState, launcherWindow, overlayWindow, launcherOpen, overlaysOpen, overlayUrl>>

hostVars == <<serverVars, electronVars>>

envVars ==
  <<db, loadPc, loadData, tickLeft, apiProbe, storedProvider, broadcasterVars,
    hostVars>>

\* History of the current burst of partial updates: n updates so far; ready
\* when the first of them changed the partial text and the provider could
\* translate at each of them; calls translate calls issued for the partial
\* since the burst began; last the text of the latest call.
NoBurst == [n |-> 0, ready |-> TRUE, calls |-> 0, last |-> ""]

\* The last operation: its name, the caption id and the text it carried, and
\* for a final the partial text it found; live is the language_code most
\* recently carried by a live final or partial ("" while none carried one);
\* cut tells that a bulk pass was in flight when an operation other than a
\* step of that pass took place.
InitOp ==
  [op |-> "Init", id |-> 0, text |-> "", partial |-> "", live |-> "",
   cut |-> FALSE]
Op(name, id, text) ==
  [op |-> name, id |-> id, text |-> text, partial |-> "", live |-> lastOp.live,
   cut |-> /\ name \notin {"ChromeBulkStep", "ApiBulkStep"}
           /\ chromeRun.stage = "bulk" \/ apiBulk.active]

Ids(caps) == {caps[i].id : i \in 1..Len(caps)}

\* .order("sequence_number", { ascending: true }) over a set of rows.
RECURSIVE SortBySeq(_)
SortBySeq(rows) ==
  IF rows = {} THEN <<>>
  ELSE LET first == CHOOSE x \in rows : \A y \in rows : x.seq <= y.seq
       IN <<first>> \o SortBySeq(rows \ {first})

\* A text as the route and the app take it: a string of tokens, or a value
\* that is no string.
Tokens == {" ", "http://", "https://", "ftp://", "x"}
Strings == UNION {[1..n -> Tokens] : n \in 0..MaxText}
Str(chars) == [str |-> TRUE, chars |-> chars]
NotAString == [str |-> FALSE, chars |-> <<>>]
Values == {Str(c) : c \in Strings} \cup {NotAString}

\* String.prototype.trim over the tokens.
RECURSIVE TrimStart(_)
TrimStart(c) == IF c # <<>> /\ Head(c) = " " THEN TrimStart(Tail(c)) ELSE c
RECURSIVE TrimEnd(_)
TrimEnd(c) ==
  IF c # <<>> /\ c[Len(c)] = " " THEN TrimEnd(SubSeq(c, 1, Len(c) - 1)) ELSE c
Trim(c) == TrimEnd(TrimStart(c))
StartsWith(c, t) == c # <<>> /\ Head(c) = t

\* No environment variable set; nothing asked yet.
NoEnv == [provider |-> "", deeplKey |-> "", googleKey |-> ""]
NoResponse == [status |-> 0, attempt |-> FALSE]
NoRequest == [json |-> FALSE, targetLanguage |-> "", text |-> NotAString]
ServerIdle ==
  /\ serverEnv = NoEnv
  /\ getResponse = "none"
  /\ postRequest = NoRequest
  /\ postResponse = NoResponse

\* The app before whenReady.
ElectronIdle ==
  /\ appState = "starting"
  /\ launcherWindow = "null"
  /\ overlayWindow = "null"
  /\ launcherOpen = "none"
  /\ overlaysOpen = 0
  /\ overlayUrl = <<>>

\* The state after mount: the mount effects have run, the history query and
\* the GET /api/translate probe are in flight.
Init ==
  /\ captions = <<>>
  /\ partialText = ""
  /\ isLoading = TRUE
  /\ sourceLanguage = "en"
  /\ targetLanguage = "none"
  /\ storedProvider \in {"", "chrome", "api"}
  /\ translationProvider = IF storedProvider = "api" THEN "api" ELSE "chrome"
  /\ translatedCaptions = EmptyMap
  /\ translatedPartialText = NoText
  /\ isTranslatorSupported \in BOOLEAN
  /\ isTranslationApiAvailable = FALSE
  /\ isTranslating = FALSE
  /\ translationError = NoError
  /\ downloadProgress = -1
  /\ translatorRef = NoHandle
  /\ undestroyed = 0
  /\ translatorAbortRef = IF storedProvider = "api" THEN "null" ELSE "live"
  /\ chromeRun = NoRun
  /\ staleRuns = {}
  /\ apiBulk = NoBulk
  /\ apiNewCap = NoNewCap
  /\ timers = {}
  /\ calls = {}
  /\ lastActivityAge = 0
  /\ showIdleMessage = FALSE
  /\ idleMessageVisible = FALSE
  /\ idleMessageTimeout = -1
  /\ idleOrphanTimers = 0
  /\ tickLeft = StepsPerTick
  /\ db = 0
  /\ loadPc = "querying"
  /\ loadData = <<>>
  /\ apiProbe = "pending"
  /\ burst = NoBurst
  /\ lastOp = InitOp
  /\ sequenceNumberRef = 0
  /\ eventRows = <<>>
  /\ broadcasterLoad = "querying"
  /\ broadcasterData = <<>>
  /\ previewCaptions = <<>>
  /\ insertResponses = {}
  /\ insertNotifications = {}
  /\ ServerIdle
  /\ ElectronIdle

\* The broadcaster inserts the next final caption of the event.
DbInsert ==
  /\ db < MaxCaptions
  /\ db' = db + 1
  /\ lastOp' = Op("DbInsert", db + 1, "")
  /\ UNCHANGED <<hostVars, broadcasterVars, captions, partialText, isLoading, sourceLanguage,
        targetLanguage, translationProvider, translatedCaptions,
        translatedPartialText, isTranslatorSupported, isTranslationApiAvailable,
        isTranslating, translationError, downloadProgress,
        translatorRef, translatorAbortRef, undestroyed,
        chromeRun, staleRuns, apiBulk, apiNewCap, timers, calls,
        lastActivityAge, showIdleMessage, idleMessageVisible, idleMessageTimeout,
        idleOrphanTimers,
        tickLeft, loadPc, loadData, apiProbe, storedProvider, burst>>

\* The server evaluates the history query of loadCaptions.
LoadQuery ==
  /\ loadPc = "querying"
  /\ loadPc' = "responding"
  /\ loadData' = SortBySeq({Row(i) : i \in 1..db})
  /\ lastOp' = Op("LoadQuery", 0, "")
  /\ UNCHANGED <<hostVars, broadcasterVars, captions, partialText, isLoading, sourceLanguage,
        targetLanguage, translationProvider, translatedCaptions,
        translatedPartialText, isTranslatorSupported, isTranslationApiAvailable,
        isTranslating, translationError, downloadProgress,
        translatorRef, translatorAbortRef, undestroyed,
        chromeRun, staleRuns, apiBulk, apiNewCap, timers, calls,
        lastActivityAge, showIdleMessage, idleMessageVisible, idleMessageTimeout,
        idleOrphanTimers,
        tickLeft, db, apiProbe, storedProvider, burst>>

\* A plausible slip: only the oldest caption is looked at.
FirstWithLangOldestOnly(data) ==
  IF Len(data) = 0 THEN "" ELSE data[1].lang

FirstWithLang(data) ==
  LET withLang == {i \in 1..Len(data) : data[i].lang # ""}
  IN IF withLang = {} THEN ""
     ELSE data[CHOOSE i \in withLang : \A j \in withLang : i <= j].lang

\* loadCaptions resumes with the data of the query.
LoadApply(s, data) ==
  LET a == SetCaptionsObj(s, data)
      b == IF Len(data) > 0 THEN [a EXCEPT !.lastActivityAge = 0] ELSE a
      c == IF FirstWithLang(data) # ""
             THEN [b EXCEPT !.sourceLanguage = FirstWithLang(data)] ELSE b
  IN [c EXCEPT !.isLoading = FALSE]

LoadComplete ==
  /\ loadPc = "responding"
  /\ Commit(Render(Cur, LoadApply(Cur, loadData)))
  /\ loadPc' = "done"
  /\ lastOp' = Op("LoadComplete", Len(loadData), "")
  /\ burst' = NoBurst
  /\ UNCHANGED <<hostVars, broadcasterVars, db, loadData, tickLeft, apiProbe, storedProvider>>

\* A plausible slip: the failure empties the list.
LoadFailApplyClear(s) ==
  SetCaptionsObj([s EXCEPT !.isLoading = FALSE], <<>>)

\* loadCaptions resumes with an error of the transport.
LoadFailApply(s) == [s EXCEPT !.isLoading = FALSE]

LoadFail ==
  /\ loadPc \in {"querying", "responding"}
  /\ Commit(Render(Cur, LoadFailApply(Cur)))
  /\ loadPc' = "done"
  /\ lastOp' = Op("LoadFail", 0, "")
  /\ UNCHANGED <<hostVars, broadcasterVars, db, loadData, tickLeft, apiProbe, storedProvider, burst>>

\* Plausible slips of the INSERT handler: no dedup by id; the partial kept;
\* the new caption put in front.
FinalApplyAlwaysAppend(s, c) ==
  SetCaptionsObj([s EXCEPT !.lastActivityAge = 0,
                           !.sourceLanguage = IF c.lang # "" THEN c.lang ELSE @,
                           !.partialText = ""],
                 Append(s.captions, c))

FinalApplyKeepPartial(s, c) ==
  LET a == [s EXCEPT !.lastActivityAge = 0,
                     !.sourceLanguage = IF c.lang # "" THEN c.lang ELSE @]
  IN IF c.id \in Ids(a.captions) THEN a
     ELSE SetCaptionsObj(a, Append(a.captions, c))

FinalApplyPrepend(s, c) ==
  LET a == [s EXCEPT !.lastActivityAge = 0,
                     !.sourceLanguage = IF c.lang # "" THEN c.lang ELSE @,
                     !.partialText = ""]
  IN IF c.id \in Ids(a.captions) THEN a
     ELSE SetCaptionsObj(a, <<c>> \o a.captions)

\* The postgres_changes INSERT handler (ingestFinal).
FinalApply(s, c) ==
  LET a == [s EXCEPT !.lastActivityAge = 0,
                     !.sourceLanguage = IF c.lang # "" THEN c.lang ELSE @,
                     !.partialText = ""]
  IN IF c.id \in Ids(a.captions) THEN a
     ELSE SetCaptionsObj(a, Append(a.captions, c))

IngestFinal(c) ==
  /\ c.id \in 1..db
  /\ Commit(Render(Cur, FinalApply(Cur, c)))
  /\ lastOp' = [Op("IngestFinal", c.id, c.text)
                  EXCEPT !.partial = partialText,
                         !.live = IF c.lang # "" THEN c.lang ELSE @]
  /\ burst' = NoBurst
  /\ UNCHANGED envVars

\* The partial_transcript broadcast handler (ingestPartial).
PartialApply(s, text, lang) ==
  [s EXCEPT !.lastActivityAge = 0,
            !.sourceLanguage = IF lang # "" THEN lang ELSE @,
            !.partialText = text]

\* ------------------------------------------------------------------------
\* Idle detector
\* ------------------------------------------------------------------------
\* The clock advances by one step; no timer is overdue.
Advance ==
  /\ tickLeft > 0
  /\ idleMessageTimeout # 0
  /\ tickLeft' = tickLeft - 1
  /\ idleMessageTimeout' = IF idleMessageTimeout > 0 THEN idleMessageTimeout - 1 ELSE -1
  /\ lastActivityAge' = IF lastActivityAge < MaxElapsed THEN lastActivityAge + 1 ELSE MaxElapsed
  /\ lastOp' = Op("Advance", 0, "")
  /\ UNCHANGED <<hostVars, broadcasterVars, captions, partialText, isLoading, sourceLanguage,
        targetLanguage, translationProvider, translatedCaptions,
        translatedPartialText, isTranslatorSupported, isTranslationApiAvailable,
        isTranslating, translationError, downloadProgress,
        translatorRef, translatorAbortRef, undestroyed,
        chromeRun, staleRuns, apiBulk, apiNewCap, timers, calls,
        showIdleMessage, idleMessageVisible, idleOrphanTimers,
        db, loadPc, loadData, apiProbe, storedProvider, burst>>

\* The callback of the 1 s idle check interval.
IdleTickApply(s) == [s EXCEPT !.showIdleMessage = (s.lastActivityAge >= ThresholdSteps)]

IdleTick ==
  /\ tickLeft = 0
  /\ Commit(Render(Cur, IdleTickApply(Cur)))
  /\ tickLeft' = StepsPerTick
  /\ lastOp' = Op("IdleTick", 0, "")
  /\ UNCHANGED <<hostVars, broadcasterVars, db, loadPc, loadData, apiProbe, storedProvider, burst>>

\* The callback of the idle message timeout.
IdleMessageTimeoutApply(s) ==
  [s EXCEPT !.idleMessageVisible = FALSE, !.idleMessageTimeout = -1]

IdleMessageTimeout ==
  /\ idleMessageTimeout = 0
  /\ Commit(Render(Cur, IdleMessageTimeoutApply(Cur)))
  /\ lastOp' = Op("IdleMessageTimeout", 0, "")
  /\ UNCHANGED <<envVars, burst>>

\* The idle indicator the presentation derives from the two flags.
IdleIndicator ==
  IF ~showIdleMessage THEN "ACTIVE"
  ELSE IF idleMessageVisible THEN "IDLE_RECENT" ELSE "IDLE_QUIET"

\* ------------------------------------------------------------------------
\* Partial transcripts and their debounced translation
\* ------------------------------------------------------------------------
\* The provider selected in s can translate right now.
TranslationReady(s) ==
  /\ s.targetLanguage # "none"
  /\ IF s.translationProvider = "chrome" THEN s.translatorRef.live
     ELSE s.isTranslationApiAvailable

BurstAfterPartial(s, text) ==
  IF text = "" \/ s.targetLanguage = "none" THEN NoBurst
  ELSE IF timers # {}
    THEN [burst EXCEPT !.n = IF @ < MaxBurst THEN @ + 1 ELSE @,
                       !.ready = @ /\ TranslationReady(s)]
    ELSE [n |-> 1, ready |-> TranslationReady(s) /\ text # partialText,
          calls |-> 0, last |-> ""]

IngestPartial(text, lang) ==
  LET s == Render(Cur, PartialApply(Cur, text, lang))
  IN /\ Commit(s)
     /\ burst' = BurstAfterPartial(s, text)
     /\ lastOp' = [Op("IngestPartial", 0, text)
                     EXCEPT !.live = IF lang # "" THEN lang ELSE @]
     /\ UNCHANGED envVars

NewCall(kind, id, text, src, tgt) ==
  [kind |-> kind, id |-> id, text |-> text, src |-> src, tgt |-> tgt]

\* The callback of a debounce timer: translateViaApi(partialText) on the API
\* path, translatorRef.current!.translate(partialText) on the Chrome path
\* (a TypeError when the ref is null, caught by the callback).
DebounceApply(s, t) ==
  LET a == [s EXCEPT !.timers = @ \ {t}]
  IN IF t.kind = "api"
       THEN [a EXCEPT !.calls = @ \cup {NewCall("apiPartial", 0, t.text, t.src, t.tgt)}]
     ELSE IF a.translatorRef.live
       THEN [a EXCEPT !.calls = @ \cup {NewCall("chromePartial", 0, t.text,
                                                a.translatorRef.src, a.translatorRef.tgt)}]
     ELSE [a EXCEPT !.translatedPartialText = NoText]

DebounceFire(t) ==
  /\ t \in timers
  /\ LET s == Render(Cur, DebounceApply(Cur, t))
     IN /\ Commit(s)
        /\ burst' = IF t.kind = "api" \/ translatorRef.live
                      THEN [burst EXCEPT !.calls = IF @ < MaxBurst THEN @ + 1 ELSE @,
                                         !.last = t.text]
                      ELSE burst
  /\ lastOp' = Op("DebounceFire", 0, t.text)
  /\ UNCHANGED envVars

\* A plausible slip: a failed call takes the partial with it.
CallApplyDropPartialOnError(s, c, outcome) ==
  LET a == [s EXCEPT !.calls = @ \ {c},
                     !.partialText = IF outcome = "error" THEN "" ELSE @]
      v == Translated(c.text, c.src, c.tgt)
  IN IF c.kind = "apiPartial"
       THEN [a EXCEPT !.translatedPartialText = IF outcome = "ok" THEN v ELSE NoText]
     ELSE IF c.kind = "chromePartial"
       THEN IF outcome = "ok"
              THEN IF a.translatorAbortRef = "aborted" THEN a
                   ELSE [a EXCEPT !.translatedPartialText = v]
              ELSE [a EXCEPT !.translatedPartialText = NoText]
     ELSE IF outcome = "ok"
       THEN IF a.translatorAbortRef = "aborted" THEN a
            ELSE SetTranslatedCaptionsObj(a, MapSet(a.translatedCaptions, c.id, v))
       ELSE a

\* A translate call that no effect cancels settles: the partial translation
\* of either provider, or translateNewCaption of the Chrome path.
CallApply(s, c, outcome) ==
  LET a == [s EXCEPT !.calls = @ \ {c}]
      v == Translated(c.text, c.src, c.tgt)
  IN IF c.kind = "apiPartial"
       THEN [a EXCEPT !.translatedPartialText = IF outcome = "ok" THEN v ELSE NoText]
     ELSE IF c.kind = "chromePartial"
       THEN IF outcome = "ok"
              THEN IF a.translatorAbortRef = "aborted" THEN a
                   ELSE [a EXCEPT !.translatedPartialText = v]
              ELSE [a EXCEPT !.translatedPartialText = NoText]
     ELSE IF outcome = "ok"
       THEN IF a.translatorAbortRef = "aborted" THEN a
            ELSE SetTranslatedCaptionsObj(a, MapSet(a.translatedCaptions, c.id, v))
       ELSE a

CallResolve(c, outcome) ==
  /\ c \in calls
  /\ Commit(Render(Cur, CallApply(Cur, c, outcome)))
  /\ lastOp' = Op("CallResolve", c.id, c.kind)
  /\ UNCHANGED <<envVars, burst>>

\* ------------------------------------------------------------------------
\* Translation configuration
\* ------------------------------------------------------------------------
\* The LanguageSelector (disabled while isTranslating).
SetTarget(t) ==
  /\ ~isTranslating
  /\ isTranslatorSupported \/ isTranslationApiAvailable
  /\ t # targetLanguage
  /\ Commit(Render(Cur, [Cur EXCEPT !.targetLanguage = t]))
  /\ lastOp' = Op("SetTarget", 0, t)
  /\ burst' = NoBurst
  /\ UNCHANGED envVars

\* setTranslationProviderAndSave, offered when both providers exist.
SetProvider(p) ==
  /\ isTranslatorSupported /\ isTranslationApiAvailable
  /\ p # translationProvider
  /\ Commit(Render(Cur, [Cur EXCEPT !.translationProvider = p]))
  /\ storedProvider' = p
  /\ lastOp' = Op("SetProvider", 0, p)
  /\ burst' = NoBurst
  /\ UNCHANGED <<hostVars, broadcasterVars, db, loadPc, loadData, tickLeft, apiProbe>>

\* GET /api/translate answers (or fails, which counts as unavailable).
ApiProbeApply(s, available) ==
  [s EXCEPT !.isTranslationApiAvailable = available,
            !.translationProvider =
               IF available /\ storedProvider \notin {"chrome", "api"} THEN "api" ELSE @]

ApiProbeResolve(available) ==
  /\ apiProbe = "pending"
  /\ Commit(Render(Cur, ApiProbeApply(Cur, available)))
  /\ apiProbe' = "done"
  /\ lastOp' = Op("ApiProbeResolve", 0, "")
  /\ burst' = NoBurst
  /\ UNCHANGED <<hostVars, broadcasterVars, db, loadPc, loadData, tickLeft, storedProvider>>

\* ------------------------------------------------------------------------
\* createTranslator (Chrome on-device provider)
\* ------------------------------------------------------------------------
\* A createTranslator that goes on to create whatever availability() answers.
AvailabilityApplyNoCheck(s, answer) ==
  [s EXCEPT !.chromeRun.stage = "create"]

\* Translator.availability() answers the current run.
AvailabilityApply(s, answer) ==
  IF answer = "no"
    THEN [s EXCEPT !.translationError = UnsupportedError(s.chromeRun.src, s.chromeRun.tgt),
                   !.isTranslating = FALSE,
                   !.chromeRun = NoRun]
    ELSE [s EXCEPT !.chromeRun.stage = "create"]

ChromeAvailability(answer) ==
  /\ chromeRun.stage = "avail"
  /\ Commit(Render(Cur, AvailabilityApply(Cur, answer)))
  /\ lastOp' = Op("ChromeAvailability", 0, answer)
  /\ UNCHANGED <<envVars, burst>>

\* Translator.availability() answers a run whose controller was aborted:
\* the run does not look at the signal before acting on the answer.
StaleAvailabilityApply(s, st, answer) ==
  IF answer = "no"
    THEN [s EXCEPT !.translationError = UnsupportedError(st.src, st.tgt),
                   !.isTranslating = FALSE,
                   !.staleRuns = @ \ {st}]
    ELSE [s EXCEPT !.staleRuns = (@ \ {st}) \cup {[st EXCEPT !.stage = "create"]}]

StaleAvailability(st, answer) ==
  /\ st \in staleRuns
  /\ st.stage = "avail"
  /\ Commit(Render(Cur, StaleAvailabilityApply(Cur, st, answer)))
  /\ lastOp' = Op("StaleAvailability", 0, answer)
  /\ UNCHANGED <<envVars, burst>>

\* The bulk pass is over: publish the map (translateExistingCaptions) and
\* leave the translating state (createTranslator).
ChromeBulkEnd(s, acc) ==
  [SetTranslatedCaptionsObj(s, acc) EXCEPT !.isTranslating = FALSE, !.chromeRun = NoRun]

\* A plausible slip: the catch block forgets setIsTranslating(false).
CreateApplyKeepTranslating(s, outcome) ==
  IF outcome = "ok"
    THEN LET a == [s EXCEPT !.translatorRef = [live |-> TRUE, src |-> s.chromeRun.src,
                                               tgt |-> s.chromeRun.tgt],
                            !.undestroyed = @ + 1,
                            !.downloadProgress = -1]
         IN IF a.chromeRun.caps = <<>>
              THEN ChromeBulkEnd(a, EmptyMap)
              ELSE [a EXCEPT !.chromeRun.stage = "bulk", !.chromeRun.idx = 1]
    ELSE [s EXCEPT !.translationError =
                      IF outcome = "unsupported"
                        THEN UnsupportedError(s.chromeRun.src, s.chromeRun.tgt)
                        ELSE InitFailedError(s.chromeRun.src, s.chromeRun.tgt),
                   !.downloadProgress = -1,
                   !.chromeRun = NoRun]

\* Translator.create() settles for the current run.
CreateApply(s, outcome) ==
  IF outcome = "ok"
    THEN LET a == [s EXCEPT !.translatorRef = [live |-> TRUE, src |-> s.chromeRun.src,
                                               tgt |-> s.chromeRun.tgt],
                            !.undestroyed = @ + 1,
                            !.downloadProgress = -1]
         IN IF a.chromeRun.caps = <<>>
              THEN ChromeBulkEnd(a, EmptyMap)
              ELSE [a EXCEPT !.chromeRun.stage = "bulk", !.chromeRun.idx = 1]
    ELSE [s EXCEPT !.translationError =
                      IF outcome = "unsupported"
                        THEN UnsupportedError(s.chromeRun.src, s.chromeRun.tgt)
                        ELSE InitFailedError(s.chromeRun.src, s.chromeRun.tgt),
                   !.isTranslating = FALSE,
                   !.downloadProgress = -1,
                   !.chromeRun = NoRun]

ChromeCreate(outcome) ==
  /\ chromeRun.stage = "create"
  /\ Commit(Render(Cur, CreateApply(Cur, outcome)))
  /\ lastOp' = Op("ChromeCreate", 0, outcome)
  /\ UNCHANGED <<envVars, burst>>

\* A plausible slip: the aborted run keeps the translator it was given.
StaleCreateApplyNoDestroy(s, st) ==
  [s EXCEPT !.staleRuns = @ \ {st}, !.undestroyed = @ + 1]

\* Translator.create() settles for an aborted run: the translator is
\* destroyed at once, a failure is ignored.
StaleCreateApply(s, st) == [s EXCEPT !.staleRuns = @ \ {st}]

StaleCreate(st) ==
  /\ st \in staleRuns
  /\ st.stage = "create"
  /\ Commit(Render(Cur, StaleCreateApply(Cur, st)))
  /\ lastOp' = Op("StaleCreate", 0, "")
  /\ UNCHANGED <<envVars, burst>>

\* A plausible slip: a failed translate call ends the pass with an error.
BulkStepApplyAbortOnFailure(s, ok) ==
  LET run == s.chromeRun
      cap == run.caps[run.idx]
      acc == MapSet(run.acc, cap.id, Translated(cap.text, run.src, run.tgt))
  IN IF ~ok
       THEN [s EXCEPT !.translationError = InitFailedError(run.src, run.tgt),
                      !.isTranslating = FALSE,
                      !.chromeRun = NoRun]
     ELSE IF run.idx < Len(run.caps)
       THEN [s EXCEPT !.chromeRun.idx = @ + 1, !.chromeRun.acc = acc]
     ELSE ChromeBulkEnd(s, acc)

\* One translate call of translateExistingCaptions settles.
BulkStepApply(s, ok) ==
  LET run == s.chromeRun
      cap == run.caps[run.idx]
      acc == IF ok THEN MapSet(run.acc, cap.id, Translated(cap.text, run.src, run.tgt))
             ELSE run.acc
  IN IF run.idx < Len(run.caps)
       THEN [s EXCEPT !.chromeRun.idx = @ + 1, !.chromeRun.acc = acc]
       ELSE ChromeBulkEnd(s, acc)

ChromeBulkStep(ok) ==
  /\ chromeRun.stage = "bulk"
  /\ Commit(Render(Cur, BulkStepApply(Cur, ok)))
  /\ lastOp' = Op("ChromeBulkStep", chromeRun.caps[chromeRun.idx].id,
                  IF ok THEN "ok" ELSE "error")
  /\ UNCHANGED <<envVars, burst>>

\* ------------------------------------------------------------------------
\* Server API provider
\* ------------------------------------------------------------------------
\* A plausible slip: the pass ends without setTranslatedCaptions.
ApiBulkStepApplyNoPublish(s, ok) ==
  LET run == s.apiBulk
      cap == run.caps[run.idx]
      acc == IF ok THEN MapSet(run.acc, cap.id, Translated(cap.text, run.src, run.tgt))
             ELSE run.acc
  IN IF run.idx < Len(run.caps)
       THEN [s EXCEPT !.apiBulk.idx = @ + 1, !.apiBulk.acc = acc]
       ELSE [s EXCEPT !.isTranslating = FALSE, !.apiBulk = NoBulk]

\* One translateViaApi call of the bulk run settles.
ApiBulkStepApply(s, ok) ==
  LET run == s.apiBulk
      cap == run.caps[run.idx]
      acc == IF ok THEN MapSet(run.acc, cap.id, Translated(cap.text, run.src, run.tgt))
             ELSE run.acc
  IN IF run.idx < Len(run.caps)
       THEN [s EXCEPT !.apiBulk.idx = @ + 1, !.apiBulk.acc = acc]
       ELSE [SetTranslatedCaptionsObj(s, acc) EXCEPT !.isTranslating = FALSE,
                                                     !.apiBulk = NoBulk]

ApiBulkStep(ok) ==
  /\ apiBulk.active
  /\ Commit(Render(Cur, ApiBulkStepApply(Cur, ok)))
  /\ lastOp' = Op("ApiBulkStep", apiBulk.caps[apiBulk.idx].id,
                  IF ok THEN "ok" ELSE "error")
  /\ UNCHANGED <<envVars, burst>>

\* translateViaApi of the new-caption effect settles.
ApiNewCapApply(s, ok) ==
  LET c == s.apiNewCap
      a == [s EXCEPT !.apiNewCap = NoNewCap]
  IN IF ok THEN SetTranslatedCaptionsObj(a,
                  MapSet(a.translatedCaptions, c.id, Translated(c.text, c.src, c.tgt)))
     ELSE a

ApiNewCapResolve(ok) ==
  /\ apiNewCap.active
  /\ Commit(Render(Cur, ApiNewCapApply(Cur, ok)))
  /\ lastOp' = Op("ApiNewCapResolve", apiNewCap.id, IF ok THEN "ok" ELSE "error")
  /\ UNCHANGED <<envVars, burst>>

\* ------------------------------------------------------------------------
\* The view the presentation layer renders
\* ------------------------------------------------------------------------
\* An original text as shown: it carries no translation pair.
Original(text) == Translated(text, "", "")
DisplayText(c) ==
  IF targetLanguage # "none" /\ c.id \in DOMAIN translatedCaptions
    THEN translatedCaptions[c.id]
    ELSE Original(c.text)

PartialDisplay ==
  IF targetLanguage # "none" /\ translatedPartialText # NoText
    THEN translatedPartialText
    ELSE Original(partialText)

\* ------------------------------------------------------------------------
\* The broadcaster (BroadcasterInterface): the producer of sequence numbers
\* ------------------------------------------------------------------------
viewerVars ==
  <<captions, partialText, isLoading, sourceLanguage,
    targetLanguage, translationProvider, translatedCaptions,
    translatedPartialText, isTranslatorSupported, isTranslationApiAvailable,
    isTranslating, translationError, downloadProgress,
    translatorRef, translatorAbortRef, undestroyed,
    chromeRun, staleRuns, apiBulk, apiNewCap, timers, calls,
    lastActivityAge, showIdleMessage, idleMessageVisible, idleMessageTimeout,
    idleOrphanTimers,
    tickLeft, db, loadPc, loadData, apiProbe, storedProvider, burst>>

\* onFinalTranscript: the insert carries sequenceNumberRef.current++, taken
\* when the request is built; the insert then succeeds or fails.  A row
\* written sends its response to the caller and its INSERT notification to
\* the channel.
OnFinalTranscript(ok) ==
  /\ sequenceNumberRef < MaxSeq
  /\ ok => Len(eventRows) < MaxRows
  /\ sequenceNumberRef' = sequenceNumberRef + 1
  /\ eventRows' = IF ok THEN Append(eventRows, sequenceNumberRef) ELSE eventRows
  /\ insertResponses' = IF ok THEN insertResponses \cup {Len(eventRows) + 1}
                        ELSE insertResponses
  /\ insertNotifications' = IF ok THEN insertNotifications \cup {Len(eventRows) + 1}
                            ELSE insertNotifications
  /\ lastOp' = Op("OnFinalTranscript", sequenceNumberRef, IF ok THEN "ok" ELSE "error")
  /\ UNCHANGED <<hostVars, viewerVars, broadcasterLoad, broadcasterData, previewCaptions>>

\* The insert response: setCaptions((prev) => [...prev, insertedCaption]).
InsertResponseApply(prev, id) == Append(prev, id)

InsertResponse(id) ==
  /\ id \in insertResponses
  /\ insertResponses' = insertResponses \ {id}
  /\ previewCaptions' = InsertResponseApply(previewCaptions, id)
  /\ lastOp' = Op("InsertResponse", id, "")
  /\ UNCHANGED <<hostVars, viewerVars, sequenceNumberRef, eventRows, broadcasterLoad,
                 broadcasterData, insertNotifications>>

\* The postgres_changes INSERT handler: add the row unless its id is there.
InsertNotificationApply(prev, id) ==
  IF \E i \in 1..Len(prev) : prev[i] = id THEN prev ELSE Append(prev, id)

InsertNotification(id) ==
  /\ id \in insertNotifications
  /\ insertNotifications' = insertNotifications \ {id}
  /\ previewCaptions' = InsertNotificationApply(previewCaptions, id)
  /\ lastOp' = Op("InsertNotification", id, "")
  /\ UNCHANGED <<hostVars, viewerVars, sequenceNumberRef, eventRows, broadcasterLoad,
                 broadcasterData, insertResponses>>

\* .order("sequence_number", { ascending: true }): the ids of the rows in an
\* order of ascending sequence_number; rows of equal number in any order.
OrderedIds(rows) ==
  {p \in [1..Len(rows) -> 1..Len(rows)] :
     /\ \A i, j \in 1..Len(rows) : i # j => p[i] # p[j]
     /\ \A i, j \in 1..Len(rows) : i < j => rows[p[i]] <= rows[p[j]]}

\* The database evaluates the history query of the mount effect.
BroadcasterLoadQuery ==
  /\ broadcasterLoad = "querying"
  /\ broadcasterLoad' = "answered"
  /\ \E data \in OrderedIds(eventRows) : broadcasterData' = data
  /\ lastOp' = Op("BroadcasterLoadQuery", 0, "")
  /\ UNCHANGED <<hostVars, viewerVars, sequenceNumberRef, eventRows, previewCaptions,
                 insertResponses, insertNotifications>>

\* The response arrives: setCaptions(data) and
\* sequenceNumberRef.current = data.length.
BroadcasterLoadComplete ==
  /\ broadcasterLoad = "answered"
  /\ broadcasterLoad' = "done"
  /\ previewCaptions' = broadcasterData
  /\ sequenceNumberRef' = Len(broadcasterData)
  /\ lastOp' = Op("BroadcasterLoadComplete", Len(broadcasterData), "")
  /\ UNCHANGED <<hostVars, viewerVars, eventRows, broadcasterData,
                 insertResponses, insertNotifications>>

\* The query fails: the error is logged.
BroadcasterLoadFail ==
  /\ broadcasterLoad = "querying"
  /\ broadcasterLoad' = "done"
  /\ lastOp' = Op("BroadcasterLoadFail", 0, "")
  /\ UNCHANGED <<hostVars, viewerVars, sequenceNumberRef, eventRows, broadcasterData,
                 previewCaptions, insertResponses, insertNotifications>>

\* The page is reloaded: a new mount, useRef(0), an empty list and a new
\* history load; what was under way to the old page is lost.
BroadcasterReload ==
  /\ broadcasterLoad = "done"
  /\ sequenceNumberRef' = 0
  /\ broadcasterLoad' = "querying"
  /\ broadcasterData' = <<>>
  /\ previewCaptions' = <<>>
  /\ insertResponses' = {}
  /\ insertNotifications' = {}
  /\ lastOp' = Op("BroadcasterReload", 0, "")
  /\ UNCHANGED <<hostVars, viewerVars, eventRows>>

\* ------------------------------------------------------------------------
\* The translate route of the server (GET and POST /api/translate)
\* ------------------------------------------------------------------------
pageVars == <<viewerVars, broadcasterVars>>

\* GET: available for DeepL with its key, and for Google with its key.
GET(env) ==
  \/ env.provider = "deepl" /\ env.deeplKey # ""
  \/ env.provider = "google" /\ env.googleKey # ""

\* POST: the DeepL branch (a body that is no JSON throws into the catch; the
\* fetch to DeepL throws, answers not ok, or answers), the Google branch, and
\* the answer of a route that is not configured.
POST(env, req, upstream) ==
  IF env.provider = "deepl" /\ env.deeplKey # ""
    THEN IF ~req.json THEN [status |-> 500, attempt |-> FALSE]
         ELSE IF req.targetLanguage = "" \/ ~req.text.str
           THEN [status |-> 400, attempt |-> FALSE]
         ELSE IF Trim(req.text.chars) = <<>>
           THEN [status |-> 200, attempt |-> FALSE]
         ELSE IF upstream = "throws" THEN [status |-> 500, attempt |-> TRUE]
         ELSE IF upstream = "not ok" THEN [status |-> 502, attempt |-> TRUE]
         ELSE [status |-> 200, attempt |-> TRUE]
  ELSE IF env.provider = "google" /\ env.googleKey # ""
    THEN [status |-> 501, attempt |-> FALSE]
  ELSE [status |-> 503, attempt |-> FALSE]

ServerGet ==
  /\ getResponse' = IF GET(serverEnv) THEN "available" ELSE "unavailable"
  /\ lastOp' = Op("ServerGet", 0, "")
  /\ UNCHANGED <<pageVars, electronVars, serverEnv, postRequest, postResponse>>

ServerPost(req, upstream) ==
  /\ postRequest' = req
  /\ postResponse' = POST(serverEnv, req, upstream)
  /\ lastOp' = Op("ServerPost", 0, upstream)
  /\ UNCHANGED <<pageVars, electronVars, serverEnv, getResponse>>

\* ------------------------------------------------------------------------
\* The Electron overlay app (main script)
\* ------------------------------------------------------------------------
CurApp ==
  [appState |-> appState, launcherWindow |-> launcherWindow,
   overlayWindow |-> overlayWindow, launcherOpen |-> launcherOpen,
   overlaysOpen |-> overlaysOpen, overlayUrl |-> overlayUrl]

SetApp(e) ==
  /\ appState' = e.appState
  /\ launcherWindow' = e.launcherWindow
  /\ overlayWindow' = e.overlayWindow
  /\ launcherOpen' = e.launcherOpen
  /\ overlaysOpen' = e.overlaysOpen
  /\ overlayUrl' = e.overlayUrl

\* app.quit(): every window is closed, and the closed handlers null the two
\* module variables on the way.
QuitApply(e) ==
  [e EXCEPT !.appState = "quit", !.launcherWindow = "null",
            !.overlayWindow = "null",
            !.launcherOpen = IF @ = "none" THEN "none" ELSE "closed",
            !.overlaysOpen = 0]

\* whenReady: with a URL from the environment or the command line the overlay
\* is opened at once, on that URL as it is; otherwise the launcher is opened.
WhenReadyApply(e, directUrl) ==
  IF directUrl # <<>>
    THEN [e EXCEPT !.appState = "running", !.overlayWindow = "window",
                   !.overlaysOpen = 1, !.overlayUrl = directUrl]
    ELSE [e EXCEPT !.appState = "running", !.launcherWindow = "window",
                   !.launcherOpen = "open"]

\* The handler with the prefix tested on the value as it came.
OpenOverlayApplyNoTrim(e, viewerUrl) ==
  IF ~viewerUrl.str \/ viewerUrl.chars = <<>> THEN e
  ELSE IF /\ ~StartsWith(viewerUrl.chars, "http://")
          /\ ~StartsWith(viewerUrl.chars, "https://") THEN e
  ELSE [e EXCEPT !.overlayWindow = "window",
                 !.overlaysOpen = @ + 1,
                 !.overlayUrl = Trim(viewerUrl.chars),
                 !.launcherOpen = IF e.launcherWindow # "null" THEN "closing" ELSE @,
                 !.launcherWindow = "null"]

\* open-overlay: a value that is falsy or no string, or whose trimmed text
\* has neither prefix, returns; otherwise the overlay is created on the
\* trimmed URL, then the launcher is asked to close and its variable nulled.
OpenOverlayApply(e, viewerUrl) ==
  IF ~viewerUrl.str \/ viewerUrl.chars = <<>> THEN e
  ELSE IF /\ ~StartsWith(Trim(viewerUrl.chars), "http://")
          /\ ~StartsWith(Trim(viewerUrl.chars), "https://") THEN e
  ELSE [e EXCEPT !.overlayWindow = "window",
                 !.overlaysOpen = @ + 1,
                 !.overlayUrl = Trim(viewerUrl.chars),
                 !.launcherOpen = IF e.launcherWindow # "null" THEN "closing" ELSE @,
                 !.launcherWindow = "null"]

\* The launcher's closed handler; window-all-closed quits as well.
LauncherClosedApply(e) ==
  IF e.overlayWindow = "null" \/ e.overlaysOpen = 0
    THEN QuitApply([e EXCEPT !.launcherOpen = "closed", !.launcherWindow = "null"])
    ELSE [e EXCEPT !.launcherOpen = "closed", !.launcherWindow = "null"]

\* The closed handler of an overlay window; window-all-closed quits as well.
OverlayClosedApply(e) ==
  IF \/ e.launcherWindow = "null"
     \/ e.overlaysOpen = 1 /\ e.launcherOpen \notin {"open", "closing"}
    THEN QuitApply([e EXCEPT !.overlayWindow = "null", !.overlaysOpen = @ - 1])
    ELSE [e EXCEPT !.overlayWindow = "null", !.overlaysOpen = @ - 1]

WhenReady(directUrl) ==
  /\ appState = "starting"
  /\ SetApp(WhenReadyApply(CurApp, directUrl))
  /\ lastOp' = Op("WhenReady", 0, Str(directUrl))
  /\ UNCHANGED <<pageVars, serverVars>>

\* Only the launcher page has the preload that sends open-overlay; it can
\* send until its window is gone.
OpenOverlay(viewerUrl) ==
  /\ appState = "running"
  /\ launcherOpen \in {"open", "closing"}
  /\ overlaysOpen < MaxOverlays
  /\ SetApp(OpenOverlayApply(CurApp, viewerUrl))
  /\ lastOp' = Op("OpenOverlay", 0, viewerUrl)
  /\ UNCHANGED <<pageVars, serverVars>>

\* The launcher window is gone: closed by the user, or by close().
LauncherClosed ==
  /\ appState = "running"
  /\ launcherOpen \in {"open", "closing"}
  /\ SetApp(LauncherClosedApply(CurApp))
  /\ lastOp' = Op("LauncherClosed", 0, "")
  /\ UNCHANGED <<pageVars, serverVars>>

OverlayClosed ==
  /\ appState = "running"
  /\ overlaysOpen > 0
  /\ SetApp(OverlayClosedApply(CurApp))
  /\ lastOp' = Op("OverlayClosed", 0, "")
  /\ UNCHANGED <<pageVars, serverVars>>

\* ------------------------------------------------------------------------
\* Specifications
\* ------------------------------------------------------------------------
FinalPayloads == UNION {{Row(i), Garbled(i)} : i \in 1..MaxCaptions}
CleanPayloads == {Row(i) : i \in 1..MaxCaptions}

\* The language codes of the partials of the merger: one that no caption of
\* the history carries is among them.
MergeLangs == PartialLangs \cup {"en"}

\* The caption stream merger: history load, realtime finals, partials.
NextMerge ==
  \/ DbInsert
  \/ LoadQuery
  \/ LoadComplete
  \/ LoadFail
  \/ \E c \in FinalPayloads : IngestFinal(c)
  \/ \E t \in PartialTexts, l \in MergeLangs : IngestPartial(t, l)

SpecMerge == Init /\ [][NextMerge]_vars

\* The idle detector: ingestion against the clock.
NextIdle ==
  \/ DbInsert
  \/ \E c \in CleanPayloads : IngestFinal(c)
  \/ \E t \in PartialTexts : IngestPartial(t, "")
  \/ Advance
  \/ IdleTick
  \/ IdleMessageTimeout

SpecIdle == Init /\ [][NextIdle]_vars

\* Finals that carry no language_code.
PlainPayloads == {[Row(i) EXCEPT !.lang = ""] : i \in 1..MaxCaptions}

\* The translation pipeline with one provider: either a browser with the
\* on-device translator and no server API, or a server API and no on-device
\* translator (the probe has answered, no preference is stored).  The history
\* load has answered an event without captions; the broadcaster has inserted
\* its captions since.
InitTrans ==
  /\ captions = <<>>
  /\ partialText = ""
  /\ isLoading = FALSE
  /\ sourceLanguage = "en"
  /\ targetLanguage = "none"
  /\ storedProvider = ""
  /\ isTranslatorSupported \in BOOLEAN
  /\ isTranslationApiAvailable = ~isTranslatorSupported
  /\ translationProvider = IF isTranslatorSupported THEN "chrome" ELSE "api"
  /\ translatedCaptions = EmptyMap
  /\ translatedPartialText = NoText
  /\ isTranslating = FALSE
  /\ translationError = NoError
  /\ downloadProgress = -1
  /\ translatorRef = NoHandle
  /\ undestroyed = 0
  /\ translatorAbortRef = IF isTranslatorSupported THEN "live" ELSE "null"
  /\ chromeRun = NoRun
  /\ staleRuns = {}
  /\ apiBulk = NoBulk
  /\ apiNewCap = NoNewCap
  /\ timers = {}
  /\ calls = {}
  /\ lastActivityAge = 0
  /\ showIdleMessage = FALSE
  /\ idleMessageVisible = FALSE
  /\ idleMessageTimeout = -1
  /\ idleOrphanTimers = 0
  /\ tickLeft = StepsPerTick
  /\ db = MaxCaptions
  /\ loadPc = "done"
  /\ loadData = <<>>
  /\ apiProbe = "done"
  /\ burst = NoBurst
  /\ lastOp = InitOp
  /\ sequenceNumberRef = 0
  /\ eventRows = <<>>
  /\ broadcasterLoad = "querying"
  /\ broadcasterData = <<>>
  /\ previewCaptions = <<>>
  /\ insertResponses = {}
  /\ insertNotifications = {}
  /\ ServerIdle
  /\ ElectronIdle

\* Finals arrive in sequence order here and may be redelivered.
NextTrans ==
  \/ \E c \in PlainPayloads : c.id <= Len(captions) + 1 /\ IngestFinal(c)
  \/ \E t \in PartialTexts : IngestPartial(t, "")
  \/ \E t \in Targets : SetTarget(t)
  \/ \E a \in {"no", "available"} : ChromeAvailability(a)
  \/ \E st \in staleRuns, a \in {"no", "available"} : StaleAvailability(st, a)
  \/ \E o \in {"ok", "unsupported", "error"} : ChromeCreate(o)
  \/ \E st \in staleRuns : StaleCreate(st)
  \/ \E ok \in BOOLEAN : ChromeBulkStep(ok)
  \/ \E ok \in BOOLEAN : ApiBulkStep(ok)
  \/ \E ok \in BOOLEAN : ApiNewCapResolve(ok)
  \/ \E t \in timers : DebounceFire(t)
  \/ \E c \in calls, o \in {"ok", "error"} : CallResolve(c, o)

SpecTrans == InitTrans /\ [][NextTrans]_vars

\* The translation pipeline of a browser that has both providers: the probe
\* has answered "available" and a preference is stored.  Finals and partials
\* carry their language_code.
InitConfig ==
  /\ captions = <<>>
  /\ partialText = ""
  /\ isLoading = FALSE
  /\ sourceLanguage = "en"
  /\ targetLanguage = "none"
  /\ storedProvider \in {"chrome", "api"}
  /\ isTranslatorSupported = TRUE
  /\ isTranslationApiAvailable = TRUE
  /\ translationProvider = storedProvider
  /\ translatedCaptions = EmptyMap
  /\ translatedPartialText = NoText
  /\ isTranslating = FALSE
  /\ translationError = NoError
  /\ downloadProgress = -1
  /\ translatorRef = NoHandle
  /\ undestroyed = 0
  /\ translatorAbortRef = IF storedProvider = "chrome" THEN "live" ELSE "null"
  /\ chromeRun = NoRun
  /\ staleRuns = {}
  /\ apiBulk = NoBulk
  /\ apiNewCap = NoNewCap
  /\ timers = {}
  /\ calls = {}
  /\ lastActivityAge = 0
  /\ showIdleMessage = FALSE
  /\ idleMessageVisible = FALSE
  /\ idleMessageTimeout = -1
  /\ idleOrphanTimers = 0
  /\ tickLeft = StepsPerTick
  /\ db = MaxCaptions
  /\ loadPc = "done"
  /\ loadData = <<>>
  /\ apiProbe = "done"
  /\ burst = NoBurst
  /\ lastOp = InitOp
  /\ sequenceNumberRef = 0
  /\ eventRows = <<>>
  /\ broadcasterLoad = "querying"
  /\ broadcasterData = <<>>
  /\ previewCaptions = <<>>
  /\ insertResponses = {}
  /\ insertNotifications = {}
  /\ ServerIdle
  /\ ElectronIdle

\* The bulk passes succeed here; their failures are the matter of SpecTrans.
NextConfig ==
  \/ \E c \in CleanPayloads : c.id <= Len(captions) + 1 /\ IngestFinal(c)
  \/ \E t \in {"", "a"}, l \in PartialLangs : IngestPartial(t, l)
  \/ \E t \in {"none", "es"} : SetTarget(t)
  \/ \E p \in Providers : SetProvider(p)
  \/ ChromeAvailability("available")
  \/ \E st \in staleRuns : StaleAvailability(st, "available")
  \/ \E o \in {"ok", "error"} : ChromeCreate(o)
  \/ \E st \in staleRuns : StaleCreate(st)
  \/ ChromeBulkStep(TRUE)
  \/ ApiBulkStep(TRUE)
  \/ ApiNewCapResolve(TRUE)
  \/ \E t \in timers : DebounceFire(t)
  \/ \E c \in calls, o \in {"ok", "error"} : CallResolve(c, o)

SpecConfig == InitConfig /\ [][NextConfig]_vars

\* The idle detector next to the translation of the partial: both providers,
\* no caption, the clock running.
NextIdleConfig ==
  \/ \E t \in {"", "a"} : IngestPartial(t, "")
  \/ \E t \in {"none", "es"} : SetTarget(t)
  \/ \E p \in Providers : SetProvider(p)
  \/ ChromeAvailability("available")
  \/ \E st \in staleRuns : StaleAvailability(st, "available")
  \/ ChromeCreate("ok")
  \/ \E st \in staleRuns : StaleCreate(st)
  \/ \E t \in timers : DebounceFire(t)
  \/ \E c \in calls : CallResolve(c, "ok")
  \/ Advance
  \/ IdleTick
  \/ IdleMessageTimeout

SpecIdleConfig == InitConfig /\ [][NextIdleConfig]_vars

\* The mount: the support detection and the restored preference, whatever
\* the browser supports, the server answers and localStorage holds; then the
\* selectors and the partial, with no caption.
NextMount ==
  \/ \E available \in BOOLEAN : ApiProbeResolve(available)
  \/ \E t \in {"", "a"} : IngestPartial(t, "")
  \/ \E t \in {"none", "es"} : SetTarget(t)
  \/ \E p \in Providers : SetProvider(p)
  \/ \E answer \in {"available", "no"} : ChromeAvailability(answer)
  \/ \E st \in staleRuns, answer \in {"available", "no"} : StaleAvailability(st, answer)
  \/ \E o \in {"ok", "error"} : ChromeCreate(o)
  \/ \E st \in staleRuns : StaleCreate(st)
  \/ \E t \in timers : DebounceFire(t)
  \/ \E c \in calls, o \in {"ok", "error"} : CallResolve(c, o)

SpecMount == Init /\ [][NextMount]_vars

\* One retranslation and nothing after it: captions, partials and the
\* provider choice come while the target is "none"; then the target is set
\* once, the pair is supported, and every translate call resolves.  Each
\* pending promise of the pass settles at some time.
NextLive ==
  \/ \E c \in CleanPayloads :
       targetLanguage = "none" /\ c.id <= Len(captions) + 1 /\ IngestFinal(c)
  \/ \E t \in {"", "a"}, l \in PartialLangs :
       targetLanguage = "none" /\ IngestPartial(t, l)
  \/ \E p \in Providers : targetLanguage = "none" /\ SetProvider(p)
  \/ \E t \in {"es", "fr"} : targetLanguage = "none" /\ SetTarget(t)
  \/ ChromeAvailability("available")
  \/ ChromeCreate("ok")
  \/ ChromeBulkStep(TRUE)
  \/ ApiBulkStep(TRUE)
  \/ ApiNewCapResolve(TRUE)
  \/ \E t \in timers : DebounceFire(t)
  \/ \E c \in calls : CallResolve(c, "ok")

SpecLive ==
  /\ InitConfig
  /\ [][NextLive]_vars
  /\ WF_vars(ChromeAvailability("available"))
  /\ WF_vars(ChromeCreate("ok"))
  /\ WF_vars(ChromeBulkStep(TRUE))
  /\ WF_vars(ApiBulkStep(TRUE))

\* The pages at rest: what the server and the app run next to.
PagesIdle ==
  /\ captions = <<>>
  /\ partialText = ""
  /\ isLoading = TRUE
  /\ sourceLanguage = "en"
  /\ targetLanguage = "none"
  /\ storedProvider = ""
  /\ translationProvider = "chrome"
  /\ translatedCaptions = EmptyMap
  /\ translatedPartialText = NoText
  /\ isTranslatorSupported = FALSE
  /\ isTranslationApiAvailable = FALSE
  /\ isTranslating = FALSE
  /\ translationError = NoError
  /\ downloadProgress = -1
  /\ translatorRef = NoHandle
  /\ undestroyed = 0
  /\ translatorAbortRef = "live"
  /\ chromeRun = NoRun
  /\ staleRuns = {}
  /\ apiBulk = NoBulk
  /\ apiNewCap = NoNewCap
  /\ timers = {}
  /\ calls = {}
  /\ lastActivityAge = 0
  /\ showIdleMessage = FALSE
  /\ idleMessageVisible = FALSE
  /\ idleMessageTimeout = -1
  /\ idleOrphanTimers = 0
  /\ tickLeft = StepsPerTick
  /\ db = 0
  /\ loadPc = "querying"
  /\ loadData = <<>>
  /\ apiProbe = "pending"
  /\ burst = NoBurst
  /\ lastOp = InitOp
  /\ sequenceNumberRef = 0
  /\ eventRows = <<>>
  /\ broadcasterLoad = "querying"
  /\ broadcasterData = <<>>
  /\ previewCaptions = <<>>
  /\ insertResponses = {}
  /\ insertNotifications = {}

\* The translate route under every environment, asked with every request.
Envs ==
  [provider : {"", "deepl", "google"}, deeplKey : {"", "key", "key:fx"},
   googleKey : {"", "key"}]
Requests ==
  [json : {TRUE}, targetLanguage : {"", "es"}, text : Values] \cup {NoRequest}

InitServer ==
  /\ PagesIdle
  /\ ElectronIdle
  /\ serverEnv \in Envs
  /\ getResponse = "none"
  /\ postRequest = NoRequest
  /\ postResponse = NoResponse

NextServer ==
  \/ ServerGet
  \/ \E req \in Requests, upstream \in {"ok", "not ok", "throws"} :
       ServerPost(req, upstream)

SpecServer == InitServer /\ [][NextServer]_vars

\* The overlay app from its start, with every URL and every message value.
InitElectron == PagesIdle /\ ServerIdle /\ ElectronIdle

NextElectron ==
  \/ \E directUrl \in Strings : WhenReady(directUrl)
  \/ \E viewerUrl \in Values : OpenOverlay(viewerUrl)
  \/ LauncherClosed
  \/ OverlayClosed

SpecElectron == InitElectron /\ [][NextElectron]_vars

\* The broadcaster of one event: finals, the history load, reloads.
InitBroadcast == Init /\ storedProvider = "" /\ isTranslatorSupported

NextBroadcast ==
  \/ \E ok \in BOOLEAN : OnFinalTranscript(ok)
  \/ BroadcasterLoadQuery
  \/ BroadcasterLoadComplete
  \/ BroadcasterLoadFail
  \/ BroadcasterReload
  \/ \E id \in insertResponses : InsertResponse(id)
  \/ \E id \in insertNotifications : InsertNotification(id)

SpecBroadcast == InitBroadcast /\ [][NextBroadcast]_vars

\* ------------------------------------------------------------------------
\* Properties of the caption stream merger (SpecMerge)
\* ------------------------------------------------------------------------
\* The payload of the final that lastOp records.
FinalOf(op) == [Row(op.id) EXCEPT !.text = op.text]

\* C1: after every ingestFinal the caption list is sorted ascending by
\* sequenceNumber, whatever the arrival order of the finals.
C1_SortedBySequence ==
  \A i, j \in 1..Len(captions) : i < j => captions[i].seq < captions[j].seq

\* C2: the caption list never holds two entries with the same id, and a
\* redelivery of an id already present (whatever its text) leaves the list,
\* its length and the stored text unchanged.
C2_NoDuplicateIds ==
  /\ [](\A i, j \in 1..Len(captions) : i # j => captions[i].id # captions[j].id)
  /\ [][(lastOp'.op = "IngestFinal" /\ lastOp'.id \in Ids(captions))
          => captions' = captions]_vars

\* A garbled redelivery of a caption that is in the list with its own text.
C2_Witness ==
  /\ lastOp.op = "IngestFinal"
  /\ lastOp.text = "garbled"
  /\ \E i \in 1..Len(captions) :
       captions[i].id = lastOp.id /\ captions[i].text = RowText(lastOp.id)

\* C3: an ingestFinal of a caption not yet in the list that finds a
\* non-empty partial leaves the partial empty, whatever the two texts are.
C3_FinalSupersedesPartial ==
  [][(lastOp'.op = "IngestFinal" /\ partialText # ""
        /\ lastOp'.id \notin Ids(captions))
       => partialText' = ""]_vars

\* A new final has just been inserted over a non-empty partial of another text.
C3_Witness ==
  /\ lastOp.op = "IngestFinal"
  /\ lastOp.partial # ""
  /\ lastOp.partial # lastOp.text
  /\ Len(captions) > 0
  /\ captions[Len(captions)].id = lastOp.id
  /\ partialText = ""

\* C9: an ingestFinal of a caption whose id is not in the list appends it as
\* the last element, keeps the entries before it as they were, in order, and
\* leaves the partial empty.
C9_AppendAfterLoad ==
  [][(lastOp'.op = "IngestFinal" /\ lastOp'.id \notin Ids(captions))
       => /\ captions' = Append(captions, FinalOf(lastOp'))
          /\ partialText' = ""]_vars

\* The history load has delivered L, a partial was in flight, and a final
\* that is not in L has been appended to L.
C9_Witness ==
  /\ loadPc = "done"
  /\ Len(loadData) >= 1
  /\ lastOp.op = "IngestFinal"
  /\ lastOp.partial # ""
  /\ captions = Append(loadData, FinalOf(lastOp))
  /\ partialText = ""

\* C10: a caption that has entered the list is never removed or changed.
C10_NeverRemoved ==
  [][\A i \in 1..Len(captions) :
       \E j \in 1..Len(captions') : captions'[j] = captions[i]]_vars

\* ------------------------------------------------------------------------
\* Properties of the idle detector (SpecIdle)
\* ------------------------------------------------------------------------
\* Clock steps of a duration given in milliseconds.
StepsOf(ms) == (ms * StepsPerTick) \div IDLE_TICK_MS

\* C6: with no ingestion since the last activity the indicator is ACTIVE
\* while less than 15 s have elapsed, IDLE_RECENT at 16 s and IDLE_QUIET at
\* 21 s.
C6_IdleBands ==
  /\ lastActivityAge < ThresholdSteps => IdleIndicator = "ACTIVE"
  /\ lastActivityAge = ThresholdSteps + StepsOf(IDLE_TICK_MS)
       => IdleIndicator = "IDLE_RECENT"
  /\ lastActivityAge = ThresholdSteps + MessageSteps + StepsOf(IDLE_TICK_MS)
       => IdleIndicator = "IDLE_QUIET"

\* ------------------------------------------------------------------------
\* Properties of the translation pipeline (SpecTrans)
\* ------------------------------------------------------------------------
\* C4: the result of a translation call started under a target that is no
\* longer the current one is never written to the translation cache or to
\* the translated-partial.
C4_NoStaleWrite ==
  [][/\ \A id \in DOMAIN translatedCaptions' :
          translatedCaptions'[id].tgt # targetLanguage'
            => /\ id \in DOMAIN translatedCaptions
               /\ translatedCaptions[id] = translatedCaptions'[id]
     /\ (translatedPartialText' # NoText
           /\ translatedPartialText'.tgt # targetLanguage')
          => translatedPartialText' = translatedPartialText]_vars

\* C5: setTarget to another target leaves the translation cache empty, and
\* the view never shows for a caption a text translated for another target
\* than the current one.
C5_CacheInvalidatedOnSetTarget ==
  /\ [][lastOp'.op = "SetTarget" => translatedCaptions' = EmptyMap]_vars
  /\ [](\A i \in 1..Len(captions) :
          DisplayText(captions[i]).tgt \in {"", targetLanguage})

\* C7 as stated: with a target selected, a burst of partial updates followed
\* by a quiet period causes exactly one translation call, for the last text.
C7_OneCallPerBurst ==
  burst.n > 0 =>
    IF timers = {} THEN burst.calls = 1 /\ burst.last = partialText
    ELSE burst.calls = 0

\* C7 amended: with a target selected, the provider able to translate at
\* every update of the burst (a translator handle in place on the on-device
\* provider, the API available on the other) and the first update changing
\* the partial text, a burst of non-empty partial updates keeps a single
\* schedule pending and issues no call; once the schedule has fired exactly
\* one call was issued, for the text of the last update.
C7_OneCallPerBurstWhenReady ==
  (burst.n > 0 /\ burst.ready) =>
    IF timers = {} THEN burst.calls = 1 /\ burst.last = partialText
    ELSE burst.calls = 0 /\ Cardinality(timers) = 1

\* A burst of at least two updates has ended with its single call.
C7_Witness ==
  /\ burst.n >= 2
  /\ burst.ready
  /\ timers = {}
  /\ burst.calls = 1
  /\ lastOp.op = "DebounceFire"
  /\ lastOp.text = partialText

\* C8: when availability() answers "no" for the pair of the current run,
\* translationError is set, no translator handle exists and every caption is
\* shown with its original text.
C8_UnavailablePair ==
  [][(lastOp'.op = "ChromeAvailability" /\ lastOp'.text = "no")
       => /\ translationError'.msg # ""
          /\ ~translatorRef'.live
          /\ chromeRun'.stage = "none"
          /\ \A i \in 1..Len(captions') :
               (DisplayText(captions[i]))' = Original(captions'[i].text)]_vars

\* availability() has answered "no" while captions are on display.
C8_Witness ==
  /\ lastOp.op = "ChromeAvailability"
  /\ lastOp.text = "no"
  /\ captions # <<>>
  /\ translationError = UnsupportedError(sourceLanguage, targetLanguage)
\* ------------------------------------------------------------------------
\* Properties of the configuration switches (SpecConfig)
\* ------------------------------------------------------------------------
\* C11: setProvider while the target is not none leaves the translation
\* cache and the translated-partial empty, and the view shows no cached
\* translation right after it.
C11_ProviderSwitchInvalidates ==
  [][(lastOp'.op = "SetProvider" /\ targetLanguage # "none")
       => /\ translatedCaptions' = EmptyMap
          /\ translatedPartialText' = NoText
          /\ \A i \in 1..Len(captions') :
               (DisplayText(captions[i]))' = Original(captions'[i].text)]_vars

\* C12: when an ingested final or partial overwrites the source language
\* with a different one, no entry translated from the previous source
\* language remains in the cache or is shown.
C12_SourceOverwriteInvalidates ==
  [][(lastOp'.op \in {"IngestFinal", "IngestPartial"}
        /\ sourceLanguage' # sourceLanguage)
       => /\ \A id \in DOMAIN translatedCaptions' :
               translatedCaptions'[id].src # sourceLanguage
          /\ \A i \in 1..Len(captions') :
               (DisplayText(captions[i]))'.src # sourceLanguage]_vars

\* ------------------------------------------------------------------------
\* Properties of the translation of finals (SpecTrans)
\* ------------------------------------------------------------------------
\* C13: with provider, target and source language unchanged and a target
\* selected, the arrival of a new final keeps every cache entry and starts
\* translation work only for captions that are not cached.
C13_OnlyUncachedTranslated ==
  [][(lastOp'.op = "IngestFinal" /\ lastOp'.id \notin Ids(captions)
        /\ targetLanguage # "none")
       => /\ \A id \in DOMAIN translatedCaptions :
               /\ id \in DOMAIN translatedCaptions'
               /\ translatedCaptions'[id] = translatedCaptions[id]
          /\ \A i \in 1..Len(chromeRun'.caps) :
               chromeRun'.caps[i].id \notin DOMAIN translatedCaptions
          /\ \A i \in 1..Len(apiBulk'.caps) :
               apiBulk'.caps[i].id \notin DOMAIN translatedCaptions
          /\ apiNewCap'.active => apiNewCap'.id \notin DOMAIN translatedCaptions
          /\ \A c \in calls' \ calls : c.id \notin DOMAIN translatedCaptions]_vars

\* C14: a translate call that fails in the bulk pass or for a new caption
\* leaves translationError alone and does not end the pass: the pass goes on
\* to the next caption, a call that succeeds is cached whatever failed
\* before it, and when the pass publishes its map a caption whose call
\* failed is shown with its original text.
C14_PerCaptionFailure ==
  [][/\ (lastOp'.op = "ChromeBulkStep" /\ lastOp'.text = "error")
          => /\ translationError' = translationError
             /\ IF chromeRun.idx < Len(chromeRun.caps)
                  THEN /\ chromeRun'.stage = "bulk"
                       /\ chromeRun'.idx = chromeRun.idx + 1
                       /\ chromeRun'.acc = chromeRun.acc
                  ELSE /\ translatedCaptions' = chromeRun.acc
                       /\ \A i \in 1..Len(captions') :
                            captions'[i].id = lastOp'.id
                              => (DisplayText(captions[i]))'
                                   = Original(captions'[i].text)
     /\ (lastOp'.op = "ChromeBulkStep" /\ lastOp'.text = "ok")
          => LET cap == chromeRun.caps[chromeRun.idx]
                 acc == MapSet(chromeRun.acc, cap.id,
                               Translated(cap.text, chromeRun.src, chromeRun.tgt))
             IN IF chromeRun.idx < Len(chromeRun.caps)
                  THEN chromeRun'.stage = "bulk" /\ chromeRun'.acc = acc
                  ELSE translatedCaptions' = acc
     /\ (lastOp'.op = "ApiBulkStep" /\ lastOp'.text = "error")
          => /\ translationError' = translationError
             /\ IF apiBulk.idx < Len(apiBulk.caps)
                  THEN /\ apiBulk'.active
                       /\ apiBulk'.idx = apiBulk.idx + 1
                       /\ apiBulk'.acc = apiBulk.acc
                  ELSE /\ translatedCaptions' = apiBulk.acc
                       /\ \A i \in 1..Len(captions') :
                            captions'[i].id = lastOp'.id
                              => (DisplayText(captions[i]))'
                                   = Original(captions'[i].text)
     /\ (lastOp'.op = "ApiBulkStep" /\ lastOp'.text = "ok")
          => LET cap == apiBulk.caps[apiBulk.idx]
                 acc == MapSet(apiBulk.acc, cap.id,
                               Translated(cap.text, apiBulk.src, apiBulk.tgt))
             IN IF apiBulk.idx < Len(apiBulk.caps)
                  THEN apiBulk'.active /\ apiBulk'.acc = acc
                  ELSE translatedCaptions' = acc
     /\ (lastOp'.op = "ApiNewCapResolve" /\ lastOp'.text = "error")
          => /\ translationError' = translationError
             /\ translatedCaptions' = translatedCaptions
     /\ (lastOp'.op = "CallResolve" /\ lastOp'.text = "chromeNewCap")
          => translationError' = translationError]_vars

\* A bulk pass over two captions has ended: the call for the first failed,
\* the second is cached and no error is set.
C14_Witness ==
  /\ lastOp.op \in {"ChromeBulkStep", "ApiBulkStep"}
  /\ lastOp.id = 2
  /\ lastOp.text = "ok"
  /\ Len(captions) = 2
  /\ chromeRun.stage = "none"
  /\ ~apiBulk.active
  /\ DOMAIN translatedCaptions = {2}
  /\ translationError = NoError

\* ------------------------------------------------------------------------
\* Properties of the idle detector under ingestion (SpecIdle)
\* ------------------------------------------------------------------------
\* C15: a final or a non-empty partial arriving while the indicator is
\* IDLE_RECENT or IDLE_QUIET returns the indicator to ACTIVE in the state
\* right after the ingestion and restarts the band timer.
C15_ActivityReturnsToActive ==
  [][(/\ IdleIndicator # "ACTIVE"
      /\ \/ lastOp'.op = "IngestFinal"
         \/ lastOp'.op = "IngestPartial" /\ lastOp'.text # "")
       => /\ IdleIndicator' = "ACTIVE"
          /\ lastActivityAge' = 0]_vars

\* C16: ingestPartial with an empty text leaves the instant of the last
\* activity unchanged.
C16_EmptyPartialNoActivity ==
  [][(lastOp'.op = "IngestPartial" /\ lastOp'.text = "")
       => lastActivityAge' = lastActivityAge]_vars

\* C17: when the indicator leaves ACTIVE because the idle threshold has
\* elapsed, the current partial is cleared.
C17_PartialClearedOnIdle ==
  [][(IdleIndicator = "ACTIVE" /\ IdleIndicator' # "ACTIVE")
       => partialText' = ""]_vars

\* ------------------------------------------------------------------------
\* Properties of the partial (SpecMerge, SpecTrans)
\* ------------------------------------------------------------------------
\* C18: the redelivery of a final whose id is already in the list leaves the
\* current partial text unchanged.
C18_RedeliveryKeepsPartial ==
  [][(lastOp'.op = "IngestFinal" /\ lastOp'.id \in Ids(captions))
       => partialText' = partialText]_vars

\* C19: in the step in which the partial becomes empty the translated-partial
\* is cleared, no debounce timer is left pending and no translate call is
\* issued; no timer and no partial translate call ever carries the empty
\* text.
C19_EmptyPartialClears ==
  /\ [][(partialText # "" /\ partialText' = "")
          => /\ translatedPartialText' = NoText
             /\ timers' = {}
             /\ calls' \subseteq calls]_vars
  /\ [](/\ \A t \in timers : t.text # ""
        /\ \A c \in calls : c.text # "")

\* A final has superseded a non-empty partial while a target is selected and
\* the translate call for that partial is still in flight.
C19_Witness ==
  /\ lastOp.op = "IngestFinal"
  /\ lastOp.partial # ""
  /\ partialText = ""
  /\ targetLanguage # "none"
  /\ \E c \in calls : c.kind \in {"apiPartial", "chromePartial"}
  /\ translatedPartialText = NoText
  /\ timers = {}

\* ------------------------------------------------------------------------
\* Properties of the on-device translator handles (SpecConfig)
\* ------------------------------------------------------------------------
\* C20: at most one translator is undestroyed at any time, and it is the one
\* in use for the current provider, source and target; right after a switch
\* of target, provider or source language no translator of the previous
\* configuration is left, and a create() that resolves for an aborted run
\* leaves no translator behind.
C20_HandlesReleased ==
  /\ [](/\ undestroyed = IF translatorRef.live THEN 1 ELSE 0
        /\ translatorRef.live
             => /\ translationProvider = "chrome"
                /\ translatorRef.src = sourceLanguage
                /\ translatorRef.tgt = targetLanguage)
  /\ [][(\/ targetLanguage' # targetLanguage
         \/ translationProvider' # translationProvider
         \/ sourceLanguage' # sourceLanguage) => undestroyed' = 0]_vars
  /\ [][lastOp'.op = "StaleCreate" => undestroyed' = undestroyed]_vars

\* A create() has resolved for a run that the switch to the API provider had
\* aborted: no translator is left.
C20_Witness ==
  /\ lastOp.op = "StaleCreate"
  /\ translationProvider = "api"
  /\ targetLanguage # "none"
  /\ staleRuns = {}
  /\ undestroyed = 0

\* ------------------------------------------------------------------------
\* Properties of the source language and of the history load (SpecMerge)
\* ------------------------------------------------------------------------
\* C21: after the history load has delivered L the source language is the
\* language_code of the first caption of L that carries one; when no caption
\* of L carries one and no live event has supplied one it is "en".
C21_SourceFromHistory ==
  [][lastOp'.op = "LoadComplete"
       => /\ \A i \in 1..Len(loadData) :
               (/\ loadData[i].lang # ""
                /\ \A j \in 1..(i - 1) : loadData[j].lang = "")
                 => sourceLanguage' = loadData[i].lang
          /\ ((\A i \in 1..Len(loadData) : loadData[i].lang = "")
                /\ lastOp.live = "")
               => sourceLanguage' = "en"]_vars

\* The history load has delivered two captions of which only the second
\* carries a language_code.
C21_Witness ==
  /\ lastOp.op = "LoadComplete"
  /\ Len(loadData) = 2
  /\ loadData[1].lang = ""
  /\ loadData[2].lang # ""
  /\ sourceLanguage = loadData[2].lang

\* C22: once a live final or partial has carried a language_code, the source
\* language is the one most recently carried by a live event, whatever the
\* history load delivers.
C22_SourceFromLiveEvents ==
  lastOp.live # "" => sourceLanguage = lastOp.live

\* C27: a history load that fails leaves the caption list, the partial, the
\* source language and the instant of the last activity unchanged, and the
\* viewer leaves the loading state.
C27_LoadFailureKeepsState ==
  [][lastOp'.op = "LoadFail"
       => /\ captions' = captions
          /\ partialText' = partialText
          /\ sourceLanguage' = sourceLanguage
          /\ lastActivityAge' = lastActivityAge
          /\ ~isLoading']_vars

\* The history load has failed after a live final and a live partial were
\* ingested.
C27_Witness ==
  /\ lastOp.op = "LoadFail"
  /\ captions # <<>>
  /\ partialText # ""
  /\ lastOp.live # ""
  /\ ~isLoading

\* ------------------------------------------------------------------------
\* Properties of the idle detector next to the translation (SpecIdleConfig)
\* ------------------------------------------------------------------------
\* C23: the idle indicator changes only through elapsed time and ingestion;
\* it leaves IDLE_RECENT for IDLE_QUIET only when the notice has been shown
\* for the message duration without activity, and leaves IDLE_QUIET only for
\* ACTIVE after an activity; setTarget, setProvider and the completions of
\* the translation leave it unchanged.
C23_IdleOnlyByTimeAndIngestion ==
  [][/\ IdleIndicator' # IdleIndicator
          => lastOp'.op \in {"IdleTick", "IdleMessageTimeout",
                             "IngestPartial", "IngestFinal"}
     /\ (IdleIndicator = "IDLE_RECENT" /\ IdleIndicator' = "IDLE_QUIET")
          => lastActivityAge' >= ThresholdSteps + MessageSteps
     /\ (IdleIndicator = "IDLE_RECENT" /\ IdleIndicator' = "ACTIVE")
          => lastActivityAge' < ThresholdSteps
     /\ (IdleIndicator = "IDLE_QUIET" /\ IdleIndicator' # "IDLE_QUIET")
          => /\ IdleIndicator' = "ACTIVE"
             /\ lastActivityAge' < ThresholdSteps]_vars

\* ------------------------------------------------------------------------
\* Frame properties of the translation pipeline (SpecTrans, SpecConfig)
\* ------------------------------------------------------------------------
\* C24: while the target is "none" no debounce timer is pending, no
\* translation work is started, and the view shows the original text of
\* every caption and of the partial, whatever the cache and the
\* translated-partial hold.
C24_PassThrough ==
  /\ [](targetLanguage = "none"
          => /\ timers = {}
             /\ chromeRun.stage = "none"
             /\ ~apiBulk.active
             /\ ~apiNewCap.active
             /\ \A i \in 1..Len(captions) :
                  DisplayText(captions[i]) = Original(captions[i].text)
             /\ PartialDisplay = Original(partialText))
  /\ [][(targetLanguage = "none" /\ targetLanguage' = "none")
          => calls' \subseteq calls]_vars

\* Under the target "none" a translate call issued earlier has written the
\* translated-partial, and a caption and a partial are on display.
C24_Witness ==
  /\ targetLanguage = "none"
  /\ lastOp.op = "CallResolve"
  /\ translatedPartialText # NoText
  /\ partialText # ""
  /\ captions # <<>>

\* C25: setTarget, setProvider, the steps of the translator creation, a
\* translate call that resolves or fails and a debounce timer that fires
\* leave the caption list and the partial text unchanged.
C25_PipelineKeepsCaptions ==
  [][lastOp'.op \in {"SetTarget", "SetProvider", "ChromeAvailability",
                     "StaleAvailability", "ChromeCreate", "StaleCreate",
                     "ChromeBulkStep", "ApiBulkStep", "ApiNewCapResolve",
                     "DebounceFire", "CallResolve"}
       => /\ captions' = captions
          /\ partialText' = partialText]_vars

\* A translate call has settled while a caption and a partial are on
\* display and the translated-partial is empty.
C25_Witness ==
  /\ lastOp.op = "CallResolve"
  /\ lastOp.text \in {"apiPartial", "chromePartial"}
  /\ targetLanguage # "none"
  /\ translatedPartialText = NoText
  /\ captions # <<>>
  /\ partialText # ""

\* C30: a bulk pass runs, and publishes its map, only under the
\* configuration and the caption list it was started with: once the
\* provider, the language pair or the caption list has changed the pass
\* issues no further call and its setTranslatedCaptions is skipped, on both
\* providers.
C30_SupersededPassSilent ==
  /\ [](/\ (chromeRun.stage = "bulk"
             => /\ translationProvider = "chrome"
                /\ chromeRun.caps = captions
                /\ chromeRun.src = sourceLanguage
                /\ chromeRun.tgt = targetLanguage)
        /\ (apiBulk.active
             => /\ translationProvider = "api"
                /\ apiBulk.caps = captions
                /\ apiBulk.src = sourceLanguage
                /\ apiBulk.tgt = targetLanguage))
  /\ [][/\ (\/ captions' # captions
             \/ sourceLanguage' # sourceLanguage
             \/ targetLanguage' # targetLanguage
             \/ translationProvider' # translationProvider)
            => /\ (chromeRun'.stage = "bulk" => chromeRun'.acc = EmptyMap)
               /\ (apiBulk'.active => apiBulk'.acc = EmptyMap)
               /\ (translatedCaptions' # translatedCaptions
                     => translatedCaptions' = EmptyMap)
        /\ (lastOp'.op \in {"ChromeBulkStep", "ApiBulkStep"}
              /\ translatedCaptions' # translatedCaptions)
            => DOMAIN translatedCaptions' \subseteq Ids(captions')]_vars

\* The provider was switched while the API pass was going through the list:
\* the pass is gone and its map was never published.
C30_Witness ==
  /\ lastOp.op = "SetProvider"
  /\ lastOp.cut
  /\ translationProvider = "chrome"
  /\ targetLanguage # "none"
  /\ Len(captions) = MaxCaptions
  /\ ~apiBulk.active
  /\ translatedCaptions = EmptyMap

\* C29: once the support detection is over, a viewer with only the server
\* API has the API as its active provider and a viewer with only the
\* on-device translator has Chrome, whatever preference is stored.
C29_OnlyProviderIsActive ==
  apiProbe = "done"
    => /\ (~isTranslatorSupported /\ isTranslationApiAvailable
            => translationProvider = "api")
       /\ (isTranslatorSupported /\ ~isTranslationApiAvailable
            => translationProvider = "chrome")

\* C28: the sequence numbers the broadcaster writes for the event are
\* strictly increasing in the order of the inserts: no two rows share one,
\* also after a failed insert, after a history load that completes behind
\* a final transcript, and after a reload behind a gap.
C28_SequenceStrictlyIncreasing ==
  \A i, j \in 1..Len(eventRows) : i < j => eventRows[i] < eventRows[j]

C31_EmptyPartialStaysUntranslated ==
  partialText = "" => translatedPartialText = NoText

\* C32: a translation error on display was produced for the current
\* provider, source and target: an availability answer or a creation
\* failure arriving after a switch does not set it, and there is none while
\* the target is "none".
C32_ErrorOfCurrentConfiguration ==
  translationError # NoError
    => /\ targetLanguage # "none"
       /\ translationProvider = "chrome"
       /\ translationError.src = sourceLanguage
       /\ translationError.tgt = targetLanguage

\* C33: once every outstanding availability, create and translate call has
\* settled, isTranslating is false, whatever switches and captions came
\* before: the target selector is usable again.
C33_TranslatingEnds ==
  (/\ chromeRun = NoRun
   /\ staleRuns = {}
   /\ ~apiBulk.active
   /\ ~apiNewCap.active
   /\ calls = {})
    => ~isTranslating

\* A translator creation has failed with captions to translate; nothing is
\* outstanding any more.
C33_Witness ==
  /\ lastOp.op = "ChromeCreate"
  /\ lastOp.text = "error"
  /\ targetLanguage # "none"
  /\ captions # <<>>
  /\ chromeRun = NoRun
  /\ staleRuns = {}
  /\ ~apiBulk.active
  /\ ~apiNewCap.active
  /\ calls = {}
  /\ ~isTranslating

\* C34: the idle notice is visible only while the idle flag is set; at most
\* one notice-hide timer is pending; none is pending while the idle flag is
\* false.
C34_IdleNoticeAndTimer ==
  /\ idleMessageVisible => showIdleMessage
  /\ idleOrphanTimers = 0
  /\ ~showIdleMessage => idleMessageTimeout = -1

\* The idle check has just raised the flag: the notice is up and its one
\* timer is running.
C34_Witness ==
  /\ lastOp.op = "IdleTick"
  /\ showIdleMessage
  /\ idleMessageVisible
  /\ idleMessageTimeout = MessageSteps
  /\ idleOrphanTimers = 0

\* C35: a translated text the view shows for the partial is the translation
\* of the current partial text under the current source and target, never
\* that of an earlier partial text.
C35_PartialTranslationCurrent ==
  (partialText # "" /\ PartialDisplay # Original(partialText))
    => PartialDisplay = Translated(partialText, sourceLanguage, targetLanguage)

\* C36: the caption preview list of the broadcaster holds no id twice,
\* whichever of the insert response and the INSERT notification of a row
\* comes first.
C36_PreviewHasNoDuplicate ==
  \A i, j \in 1..Len(previewCaptions) :
    i # j => previewCaptions[i] # previewCaptions[j]

\* C37: when GET /api/translate has answered available, a POST under the
\* same environment with a target language and a text that is not blank
\* makes a translation attempt and answers neither 501 nor 503.
C37_AvailableMeansTranslating ==
  (/\ getResponse = "available"
   /\ postResponse # NoResponse
   /\ postRequest.json
   /\ postRequest.targetLanguage # ""
   /\ postRequest.text.str
   /\ Trim(postRequest.text.chars) # <<>>)
    => /\ postResponse.attempt
       /\ postResponse.status \notin {501, 503}

\* C38 as stated: open-overlay with a value that is not a string starting
\* with http:// or https:// creates no window and leaves the launcher open.
C38_RawPrefixRejected ==
  [][(/\ lastOp'.op = "OpenOverlay"
      /\ ~(/\ lastOp'.text.str
            /\ \/ StartsWith(lastOp'.text.chars, "http://")
               \/ StartsWith(lastOp'.text.chars, "https://")))
       => UNCHANGED electronVars]_vars

\* C38, amended: open-overlay with a value that is not a string, or whose
\* trimmed text does not start with http:// or https://, creates no window
\* and leaves the launcher as it was; with a string whose trimmed text has
\* one of the prefixes one more overlay window exists on the trimmed URL,
\* the overlay variable is set, the launcher is closing and the app runs;
\* the launcher's closed handler after close() does not quit the app; and
\* closing an overlay while the launcher variable is null quits the app.
C38_OverlayLifecycle ==
  /\ [][(/\ lastOp'.op = "OpenOverlay"
         /\ ~(/\ lastOp'.text.str
               /\ \/ StartsWith(Trim(lastOp'.text.chars), "http://")
                  \/ StartsWith(Trim(lastOp'.text.chars), "https://")))
          => UNCHANGED electronVars]_vars
  /\ [][(/\ lastOp'.op = "OpenOverlay"
         /\ lastOp'.text.str
         /\ \/ StartsWith(Trim(lastOp'.text.chars), "http://")
            \/ StartsWith(Trim(lastOp'.text.chars), "https://"))
          => /\ overlaysOpen' = overlaysOpen + 1
             /\ overlayWindow' = "window"
             /\ overlayUrl' = Trim(lastOp'.text.chars)
             /\ launcherOpen' = "closing"
             /\ launcherWindow' = "null"
             /\ appState' = "running"]_vars
  /\ [][(lastOp'.op = "LauncherClosed" /\ launcherOpen = "closing")
          => /\ appState' = "running"
             /\ overlaysOpen' = overlaysOpen
             /\ overlaysOpen' > 0]_vars
  /\ [][(lastOp'.op = "OverlayClosed" /\ launcherWindow = "null")
          => /\ appState' = "quit"
             /\ overlaysOpen' = 0]_vars

\* The launcher's closed handler has run after an accepted open-overlay:
\* the launcher is gone and the app runs with the one overlay open.
C38_Witness ==
  /\ lastOp.op = "LauncherClosed"
  /\ appState = "running"
  /\ launcherOpen = "closed"
  /\ overlaysOpen = 1
  /\ overlayWindow = "window"
  /\ overlayUrl = <<"http://">>
====
